---------------------------- MODULE Spec2Model ----------------------------
(***************************************************************************)
(* State-machine model of the TezkorContent bot: the per-user session      *)
(* registry (sessions.py), the message handlers (bot.py), the dish parsers *)
(* (dish_parser.py) and the spreadsheet export (sheets.py).                *)
(*                                                                         *)
(* Conventions.  Python None is the string None for string-valued fields,  *)
(* NoPrice for integer prices and the null reference 0 for dish records.   *)
(* Dish records are mutable dicts shared by reference (s["parsed"] and     *)
(* positions[i]["parsed"] alias the same dict), so they live in `heap`.    *)
(* Strings are ASCII: the Cyrillic unit letter appended by                 *)
(* _normalize_weight_value is written "G".                                 *)
(***************************************************************************)
EXTENDS Integers, Sequences, FiniteSets, TLC

VARIABLES
  sessions,   \* sessions._SESSIONS: user id -> session dict
  heap,       \* the dish-record dicts, by object id
  tasks,      \* handlers suspended at an await that is followed by state changes
  out,        \* what the last handler step emitted: its reply to the operator
              \* (or the logged error) and its call of sheets.export_rows
  edits       \* number of edit targets chosen so far (bounded by MaxEdits)

vars == <<sessions, heap, tasks, out, edits>>

-----------------------------------------------------------------------------
(* Bounds of the model. *)

MaxBuf == 2      \* events kept in the bulk buffer by the handlers
MaxDraft == 1    \* texts / photos kept in the manual dish draft
MaxTasks == 2    \* handlers suspended at the same time
MaxEdits == 1    \* edit targets chosen in one run
MaxSplit == 4    \* length of the buffers the segmentation is run on (SpecSplit)
MaxLines == 2    \* messages describing one dish (SpecDish)

Users == {1, 2}
ActiveUsers == {1}
TaskIds == 1..MaxTasks
\* every position, the manual record and each suspended handler may hold a record
ObjIds == 1..(MaxBuf + MaxTasks + 1)

None == "None"
NoPrice == -1

-----------------------------------------------------------------------------
(* sessions.py: session core *)

_new_session ==
  [mode |-> "idle",
   menu |-> [sheet_url |-> None, rows |-> << >>],
   texts |-> << >>,
   photos |-> << >>,
   parsed |-> 0,
   edit_mode |-> None,
   bulk |-> [active |-> FALSE, buffer |-> << >>, positions |-> << >>,
             current_index |-> 0]]

has_session(S, u) == u \in DOMAIN S

ensure_session(S, u) == IF u \in DOMAIN S THEN S ELSE S @@ (u :> _new_session)

\* faulty variant: the session stays in the registry
clear_session_keeps(S, u) == S

clear_session(S, u) == [v \in DOMAIN S \ {u} |-> S[v]]

set_mode(S, u, mode) == [ensure_session(S, u) EXCEPT ![u].mode = mode]

get_mode(S, u) == IF u \in DOMAIN S THEN S[u].mode ELSE "idle"

\* faulty variant: the record of the position under the cursor is dropped too
reset_dish_drops_record(S, u) ==
  LET S0 == ensure_session(S, u)
      b == S0[u].bulk
  IN [S0 EXCEPT ![u].texts = << >>, ![u].photos = << >>,
                ![u].parsed = 0, ![u].edit_mode = None,
                ![u].bulk.positions =
                  [i \in DOMAIN b.positions |->
                     IF i = b.current_index + 1
                     THEN [b.positions[i] EXCEPT !.parsed = 0]
                     ELSE b.positions[i]]]

reset_dish(S, u) ==
  [ensure_session(S, u) EXCEPT ![u].texts = << >>, ![u].photos = << >>,
                               ![u].parsed = 0, ![u].edit_mode = None]

\* faulty variant: the bulk part is switched on, not replaced
start_bulk_keeps_buffer(S, u) ==
  [ensure_session(S, u) EXCEPT ![u].bulk.active = TRUE]

start_bulk(S, u) ==
  [ensure_session(S, u) EXCEPT
     ![u].bulk = [active |-> TRUE, buffer |-> << >>, positions |-> << >>,
                  current_index |-> 0]]

stop_bulk(S, u) == [ensure_session(S, u) EXCEPT ![u].bulk.active = FALSE]

start_manual_flow(S, u) ==
  LET S1 == [ensure_session(S, u) EXCEPT
               ![u].menu = [sheet_url |-> None, rows |-> << >>]]
  IN set_mode(stop_bulk(reset_dish(S1, u), u), u, "manual_wait_sheet")

start_bulk_flow(S, u) ==
  LET S1 == [ensure_session(S, u) EXCEPT
               ![u].menu = [sheet_url |-> None, rows |-> << >>]]
  IN set_mode(start_bulk(reset_dish(S1, u), u), u, "bulk_wait_sheet")

-----------------------------------------------------------------------------
(* String primitives.  The regular expressions and str methods used by     *)
(* dish_parser.py and bot.py are tabulated on a fixed set of sample        *)
(* strings; every other string gets the stated default.                    *)

\* ---- string primitives, tabulated (begin) ----
NoMatch == [ok |-> FALSE, key |-> None, value |-> None]

\* str.strip()
strip(s) ==
  CASE s = " Plov " -> "Plov"
    [] OTHER -> s

\* str.lower()
lower(s) ==
  CASE s = "Plov" -> "plov"
    [] s = "name: Osh" -> "name: osh"
    [] s = "Coca-Cola 0.5 l - 12000" -> "coca-cola 0.5 l - 12000"
    [] OTHER -> s

\* str.splitlines()
splitlines(s) ==
  CASE s = "400 g - 60000\n1 kg - 135000" -> <<"400 g - 60000", "1 kg - 135000">>
    [] s = "1 kg - 135000\nPlov\nx - y\n400 g - 60000" -> <<"1 kg - 135000", "Plov", "x - y", "400 g - 60000">>
    [] s = "Coca-Cola 0.5 l - 12000\n400 g - 60000" -> <<"Coca-Cola 0.5 l - 12000", "400 g - 60000">>
    [] OTHER -> <<s>>

\* str.split(): the whitespace-separated tokens
split(s) ==
  CASE s = "tarkib: rice, carrot" -> <<"tarkib:", "rice,", "carrot">>
    [] s = "400 g - 60000" -> <<"400", "g", "-", "60000">>
    [] s = "1 kg - 135000" -> <<"1", "kg", "-", "135000">>
    [] s = "x - 000" -> <<"x", "-", "000">>
    [] s = "price: 45000" -> <<"price:", "45000">>
    [] s = "narx 50000" -> <<"narx", "50000">>
    [] s = "weight: 350" -> <<"weight:", "350">>
    [] s = "desc: tasty" -> <<"desc:", "tasty">>
    [] s = "250 ml" -> <<"250", "ml">>
    [] s = "120 kcal" -> <<"120", "kcal">>
    [] s = "name: osh" -> <<"name:", "osh">>
    [] s = "weight: 350 g" -> <<"weight:", "350", "g">>
    [] s = "x - y" -> <<"x", "-", "y">>
    [] s = "coca-cola 0.5 l - 12000" -> <<"coca-cola", "0.5", "l", "-", "12000">>
    [] s = "tarkib rice" -> <<"tarkib", "rice">>
    [] s = "rice, carrot" -> <<"rice,", "carrot">>
    [] OTHER -> <<s>>

\* _canon_key: raw.strip().lower() with whitespace runs collapsed
norm_key(s) ==
  CASE s = "x " -> "x"
    [] s = "Coca" -> "coca"
    [] OTHER -> s

\* line.strip()[len(parts[0]):].strip()
after_first_word(s) ==
  CASE s = "Plov" -> ""
    [] s = "tarkib: rice, carrot" -> "rice, carrot"
    [] s = "tarkib" -> ""
    [] s = "rice" -> ""
    [] s = "400 g - 60000" -> "g - 60000"
    [] s = "1 kg - 135000" -> "kg - 135000"
    [] s = "x - 000" -> "- 000"
    [] s = "10202003001000000" -> ""
    [] s = "price: 45000" -> "45000"
    [] s = "narx 50000" -> "50000"
    [] s = "weight: 350" -> "350"
    [] s = "45000" -> ""
    [] s = "desc: tasty" -> "tasty"
    [] s = "250 ml" -> "ml"
    [] s = "120 kcal" -> "kcal"
    [] s = "name: Osh" -> "Osh"
    [] s = "-" -> ""
    [] s = "weight: 350 g" -> "350 g"
    [] s = "x - y" -> "- y"
    [] s = "Coca-Cola 0.5 l - 12000" -> "0.5 l - 12000"
    [] s = "tarkib rice" -> "rice"
    [] s = "rice, carrot" -> "carrot"
    [] OTHER -> s

\* low.split(" ", 1)[0]
first_space_token(s) ==
  CASE s = "tarkib: rice, carrot" -> "tarkib:"
    [] s = "400 g - 60000" -> "400"
    [] s = "1 kg - 135000" -> "1"
    [] s = "x - 000" -> "x"
    [] s = "price: 45000" -> "price:"
    [] s = "narx 50000" -> "narx"
    [] s = "weight: 350" -> "weight:"
    [] s = "desc: tasty" -> "desc:"
    [] s = "250 ml" -> "250"
    [] s = "120 kcal" -> "120"
    [] s = "name: osh" -> "name:"
    [] s = "weight: 350 g" -> "weight:"
    [] s = "x - y" -> "x"
    [] s = "coca-cola 0.5 l - 12000" -> "coca-cola"
    [] s = "tarkib rice" -> "tarkib"
    [] s = "rice, carrot" -> "rice,"
    [] OTHER -> s

\* line.split(":", 1)[1].strip()
after_colon(s) ==
  CASE s = "tarkib: rice, carrot" -> "rice, carrot"
    [] s = "price: 45000" -> "45000"
    [] s = "weight: 350" -> "350"
    [] s = "desc: tasty" -> "tasty"
    [] s = "name: Osh" -> "Osh"
    [] s = "weight: 350 g" -> "350 g"
    [] OTHER -> None

\* the parts of s between ", " separators (a string is kept as this list)
comma_parts(s) ==
  CASE s = "tarkib: rice, carrot" -> <<"tarkib: rice", "carrot">>
    [] s = "rice, carrot" -> <<"rice", "carrot">>
    [] OTHER -> <<s>>

\* re.sub(r"\D", "", s): how many digits, and their value
digits(s) ==
  CASE s = "60000" -> [len |-> 5, val |-> 60000]
    [] s = "135000" -> [len |-> 6, val |-> 135000]
    [] s = "000" -> [len |-> 3, val |-> 0]
    [] s = "45000" -> [len |-> 5, val |-> 45000]
    [] s = "350" -> [len |-> 3, val |-> 350]
    [] s = "350 g" -> [len |-> 3, val |-> 350]
    [] s = "Cola 0.5 l - 12000" -> [len |-> 7, val |-> 512000]
    [] s = "g - 60000" -> [len |-> 5, val |-> 60000]
    [] s = "kg - 135000" -> [len |-> 6, val |-> 135000]
    [] s = "- 000" -> [len |-> 3, val |-> 0]
    [] s = "50000" -> [len |-> 5, val |-> 50000]
    [] s = "0.5 l - 12000" -> [len |-> 7, val |-> 512000]
    [] s = "12000" -> [len |-> 5, val |-> 12000]
    [] s = "400 g - 60000" -> [len |-> 8, val |-> 40060000]
    [] s = "1 kg - 135000" -> [len |-> 7, val |-> 1135000]
    [] s = "x - 000" -> [len |-> 3, val |-> 0]
    [] s = "10202003001000000" -> [len |-> 17, val |-> 0]
    [] s = "price: 45000" -> [len |-> 5, val |-> 45000]
    [] s = "narx 50000" -> [len |-> 5, val |-> 50000]
    [] s = "weight: 350" -> [len |-> 3, val |-> 350]
    [] s = "250 ml" -> [len |-> 3, val |-> 250]
    [] s = "120 kcal" -> [len |-> 3, val |-> 120]
    [] s = "weight: 350 g" -> [len |-> 3, val |-> 350]
    [] s = "Coca-Cola 0.5 l - 12000" -> [len |-> 7, val |-> 512000]
    [] s = "coca-cola 0.5 l - 12000" -> [len |-> 7, val |-> 512000]
    [] s = " 60000" -> [len |-> 5, val |-> 60000]
    [] s = " 135000" -> [len |-> 6, val |-> 135000]
    [] s = " 000" -> [len |-> 3, val |-> 0]
    [] OTHER -> [len |-> 0, val |-> 0]

\* _LABELED_RE.match(s): groups key, value
_LABELED_RE(s) ==
  CASE s = "tarkib: rice, carrot" -> [ok |-> TRUE, key |-> "tarkib", value |-> "rice, carrot"]
    [] s = "400 g - 60000" -> [ok |-> TRUE, key |-> "400 g", value |-> "60000"]
    [] s = "1 kg - 135000" -> [ok |-> TRUE, key |-> "1 kg", value |-> "135000"]
    [] s = "x - 000" -> [ok |-> TRUE, key |-> "x ", value |-> "000"]
    [] s = "price: 45000" -> [ok |-> TRUE, key |-> "price", value |-> "45000"]
    [] s = "weight: 350" -> [ok |-> TRUE, key |-> "weight", value |-> "350"]
    [] s = "desc: tasty" -> [ok |-> TRUE, key |-> "desc", value |-> "tasty"]
    [] s = "name: Osh" -> [ok |-> TRUE, key |-> "name", value |-> "Osh"]
    [] s = "weight: 350 g" -> [ok |-> TRUE, key |-> "weight", value |-> "350 g"]
    [] s = "x - y" -> [ok |-> TRUE, key |-> "x ", value |-> "y"]
    [] s = "Coca-Cola 0.5 l - 12000" -> [ok |-> TRUE, key |-> "Coca", value |-> "Cola 0.5 l - 12000"]
    [] OTHER -> NoMatch

\* _PAIR_RE.match(s): groups label (key), price (value)
_PAIR_RE(s) ==
  CASE s = "400 g - 60000" -> [ok |-> TRUE, key |-> "400 g", value |-> "60000"]
    [] s = "1 kg - 135000" -> [ok |-> TRUE, key |-> "1 kg", value |-> "135000"]
    [] s = "x - 000" -> [ok |-> TRUE, key |-> "x", value |-> "000"]
    [] s = "Coca-Cola 0.5 l - 12000" -> [ok |-> TRUE, key |-> "Coca-Cola 0.5 l", value |-> "12000"]
    [] OTHER -> NoMatch

\* _WEIGHT_RE.search(s).group(0)
_WEIGHT_RE(s) ==
  CASE s = "400 g - 60000" -> "400 g"
    [] s = "1 kg - 135000" -> "1 kg"
    [] s = "250 ml" -> "250 ml"
    [] s = "weight: 350 g" -> "350 g"
    [] s = "Coca-Cola 0.5 l - 12000" -> "0.5 l"
    [] s = "coca-cola 0.5 l - 12000" -> "0.5 l"
    [] s = "350 g" -> "350 g"
    [] s = "Cola 0.5 l - 12000" -> "0.5 l"
    [] s = "0.5 l - 12000" -> "0.5 l"
    [] OTHER -> None

\* _WEIGHT_ATTR_RE.search(s).group(1)
_WEIGHT_ATTR_RE(s) ==
  CASE s = "weight: 350" -> "350"
    [] s = "weight: 350 g" -> "350 g"
    [] OTHER -> None

\* re.search(r"\b\d+(?:[.,]\d+)?\b", s).group(0)
number_search(s) ==
  CASE s = "350" -> "350"
    [] s = "350 g" -> "350"
    [] s = "60000" -> "60000"
    [] s = "135000" -> "135000"
    [] s = "000" -> "000"
    [] s = "45000" -> "45000"
    [] s = "Cola 0.5 l - 12000" -> "0.5"
    [] s = "g - 60000" -> "60000"
    [] s = "kg - 135000" -> "135000"
    [] s = "- 000" -> "000"
    [] s = "50000" -> "50000"
    [] s = "0.5 l - 12000" -> "0.5"
    [] OTHER -> None

\* f"{val} G" with the Cyrillic gram letter written G
default_unit(s) ==
  CASE s = "350" -> "350 G"
    [] s = "60000" -> "60000 G"
    [] s = "135000" -> "135000 G"
    [] s = "000" -> "000 G"
    [] s = "45000" -> "45000 G"
    [] s = "0.5" -> "0.5 G"
    [] s = "50000" -> "50000 G"
    [] OTHER -> None

\* _PRICE_LINE_RE.match(s)
_PRICE_LINE_RE(s) ==
  CASE s = "10202003001000000" -> TRUE
    [] s = "45000" -> TRUE
    [] OTHER -> FALSE

\* _IKPU_ANY_RE.search(s).group(0)
_IKPU_ANY_RE(s) ==
  CASE s = "10202003001000000" -> "10202003001000000"
    [] OTHER -> None

\* _COMPOSITION_STOP_RE.search(s)
_COMPOSITION_STOP_RE(s) ==
  CASE s = "120 kcal" -> TRUE
    [] OTHER -> FALSE

\* any(ch.isdigit() for ch in s)
has_digit(s) ==
  CASE s = "400 g - 60000" -> TRUE
    [] s = "1 kg - 135000" -> TRUE
    [] s = "x - 000" -> TRUE
    [] s = "10202003001000000" -> TRUE
    [] s = "price: 45000" -> TRUE
    [] s = "narx 50000" -> TRUE
    [] s = "weight: 350" -> TRUE
    [] s = "45000" -> TRUE
    [] s = "250 ml" -> TRUE
    [] s = "120 kcal" -> TRUE
    [] s = "weight: 350 g" -> TRUE
    [] s = "coca-cola 0.5 l - 12000" -> TRUE
    [] OTHER -> FALSE

\* any(ch.isalpha() for ch in s)
has_alpha(s) ==
  CASE s = "Plov" -> TRUE
    [] s = "tarkib: rice, carrot" -> TRUE
    [] s = "tarkib" -> TRUE
    [] s = "rice" -> TRUE
    [] s = "400 g - 60000" -> TRUE
    [] s = "1 kg - 135000" -> TRUE
    [] s = "x - 000" -> TRUE
    [] s = "price: 45000" -> TRUE
    [] s = "narx 50000" -> TRUE
    [] s = "weight: 350" -> TRUE
    [] s = "desc: tasty" -> TRUE
    [] s = "250 ml" -> TRUE
    [] s = "120 kcal" -> TRUE
    [] s = "name: Osh" -> TRUE
    [] s = "weight: 350 g" -> TRUE
    [] s = "x - y" -> TRUE
    [] s = "Coca-Cola 0.5 l - 12000" -> TRUE
    [] s = "tarkib rice" -> TRUE
    [] s = "rice, carrot" -> TRUE
    [] OTHER -> FALSE

\* any(re.match(k + separator, s) for k in STOP_KEYS)
starts_with_key_sep(s) ==
  CASE s = "tarkib: rice, carrot" -> TRUE
    [] s = "price: 45000" -> TRUE
    [] s = "weight: 350" -> TRUE
    [] s = "desc: tasty" -> TRUE
    [] s = "name: osh" -> TRUE
    [] s = "weight: 350 g" -> TRUE
    [] OTHER -> FALSE

\* any(k in s for k in STOP_KEYS)
contains_stop_key(s) ==
  CASE s = "tarkib: rice, carrot" -> TRUE
    [] s = "tarkib" -> TRUE
    [] s = "price: 45000" -> TRUE
    [] s = "narx 50000" -> TRUE
    [] s = "weight: 350" -> TRUE
    [] s = "desc: tasty" -> TRUE
    [] s = "name: osh" -> TRUE
    [] s = "weight: 350 g" -> TRUE
    [] s = "tarkib rice" -> TRUE
    [] OTHER -> FALSE

\* any(re.match(a + ":", s) for a in KEY_ALIASES["composition"])
is_header_colon(s) ==
  CASE s = "tarkib: rice, carrot" -> TRUE
    [] OTHER -> FALSE

\* re.findall(r"\d[\d\s.,]{2,}\d", s)
findall_price(s) ==
  CASE s = "400 g - 60000" -> <<"60000">>
    [] s = "1 kg - 135000" -> <<"135000">>
    [] s = "10202003001000000" -> <<"10202003001000000">>
    [] s = "price: 45000" -> <<"45000">>
    [] s = "narx 50000" -> <<"50000">>
    [] s = "45000" -> <<"45000">>
    [] s = "coca-cola 0.5 l - 12000" -> <<"12000">>
    [] OTHER -> <<>>

\* len(s)
strlen(s) ==
  CASE s = "Plov" -> 4
    [] s = "tarkib: rice, carrot" -> 20
    [] s = "tarkib" -> 6
    [] s = "rice" -> 4
    [] s = "400 g - 60000" -> 13
    [] s = "1 kg - 135000" -> 13
    [] s = "x - 000" -> 7
    [] s = "10202003001000000" -> 17
    [] s = "price: 45000" -> 12
    [] s = "narx 50000" -> 10
    [] s = "weight: 350" -> 11
    [] s = "45000" -> 5
    [] s = "desc: tasty" -> 11
    [] s = "250 ml" -> 6
    [] s = "120 kcal" -> 8
    [] s = "name: Osh" -> 9
    [] s = "-" -> 1
    [] s = "weight: 350 g" -> 13
    [] s = "x - y" -> 5
    [] s = "Coca-Cola 0.5 l - 12000" -> 23
    [] s = "tarkib rice" -> 11
    [] s = "rice, carrot" -> 12
    [] OTHER -> 0

\* line.split("-", 1) when "-" is in line: left.strip() (key), right (value)
edit_split(s) ==
  CASE s = "400 g - 60000" -> [ok |-> TRUE, key |-> "400 g", value |-> " 60000"]
    [] s = "1 kg - 135000" -> [ok |-> TRUE, key |-> "1 kg", value |-> " 135000"]
    [] s = "x - 000" -> [ok |-> TRUE, key |-> "x", value |-> " 000"]
    [] s = "-" -> [ok |-> TRUE, key |-> "", value |-> ""]
    [] s = "x - y" -> [ok |-> TRUE, key |-> "x", value |-> " y"]
    [] s = "Coca-Cola 0.5 l - 12000" -> [ok |-> TRUE, key |-> "Coca", value |-> "Cola 0.5 l - 12000"]
    [] OTHER -> NoMatch
\* ---- string primitives, tabulated (end) ----

-----------------------------------------------------------------------------
(* dish_parser.py: keyword table and utilities.  Only the ASCII spellings  *)
(* of KEY_ALIASES are listed: the model's strings are ASCII.               *)

KEY_ALIASES ==
  << [canon |-> "name", aliases |-> {"nomi", "nom", "name", "title", "naming"}],
     [canon |-> "composition",
      aliases |-> {"tarkib", "tarkibi", "ingred", "ingredients"}],
     [canon |-> "description",
      aliases |-> {"tavsif", "ta'rif", "tarif", "description", "desc"}],
     [canon |-> "price", aliases |-> {"narx", "price", "cost"}],
     [canon |-> "weight",
      aliases |-> {"og'irlik", "ogirlik", "vazn", "hajm", "weight", "size"}],
     [canon |-> "category", aliases |-> {"kategoriya", "category"}],
     [canon |-> "ikpu", aliases |-> {"ikpu", "ipku"}] >>

aliases_of(canon) ==
  UNION {KEY_ALIASES[i].aliases : i \in {j \in DOMAIN KEY_ALIASES :
                                          KEY_ALIASES[j].canon = canon}}

STOP_KEYS == UNION {KEY_ALIASES[i].aliases : i \in DOMAIN KEY_ALIASES}

\* Python truthiness of a string (None and "" are falsy).
truthy(s) == s # None /\ s # ""

\* A string kept as the list of its ", "-separated parts; << >> is None.
NoParts == << >>
truthy_parts(p) == p # NoParts /\ p # <<"">>

RECURSIVE flatten(_)
flatten(ss) == IF ss = << >> THEN << >> ELSE Head(ss) \o flatten(Tail(ss))

\* ", ".join(lines), as the list of parts
join_comma(lines) == flatten([i \in DOMAIN lines |-> comma_parts(lines[i])])

min_of(S) == CHOOSE x \in S : \A y \in S : x <= y

_canon_key(raw) ==
  LET k == norm_key(raw)
      hits == {i \in DOMAIN KEY_ALIASES : k \in KEY_ALIASES[i].aliases}
  IN IF hits = {} THEN None ELSE KEY_ALIASES[min_of(hits)].canon

normalize_texts(texts) ==
  LET lines_of(text) ==
        LET raw == splitlines(text)
            stripped == [i \in DOMAIN raw |-> strip(raw[i])]
        IN SelectSeq(stripped, LAMBDA l : l # "")
  IN flatten([i \in DOMAIN texts |->
                IF truthy(texts[i]) THEN lines_of(texts[i]) ELSE << >>])

_digits_to_int(s) ==
  LET d == digits(s)
  IN IF 3 <= d.len /\ d.len <= 9 THEN d.val ELSE NoPrice

_normalize_weight_value(raw0) ==
  IF ~truthy(raw0) THEN None
  ELSE LET raw == strip(raw0)
       IN IF raw = "" THEN None
          ELSE IF _WEIGHT_RE(raw) # None THEN strip(_WEIGHT_RE(raw))
          ELSE IF number_search(raw) # None THEN default_unit(number_search(raw))
          ELSE None

\* labeled[canon] = value
put(labeled, canon, value) == (canon :> value) @@ labeled

RECURSIVE _extract_labeled_fields_from(_, _, _)
_extract_labeled_fields_from(lines, labeled, remaining) ==
  IF lines = << >> THEN [labeled |-> labeled, remaining |-> remaining]
  ELSE
    LET line == Head(lines)
        rest == Tail(lines)
        low == lower(strip(line))
        m == _LABELED_RE(line)
        canon1 == IF m.ok THEN _canon_key(m.key) ELSE None
        parts == split(low)
        first == parts[1]
        canon2 == IF first \in STOP_KEYS THEN _canon_key(first) ELSE None
    IN IF canon1 # None
       THEN IF canon1 = "composition" /\ strip(m.value) = ""
            THEN _extract_labeled_fields_from(rest, labeled, remaining)
            ELSE _extract_labeled_fields_from(
                   rest, put(labeled, canon1, strip(m.value)), remaining)
       ELSE IF canon2 # None /\ canon2 = "composition" /\ Len(parts) = 1
            THEN _extract_labeled_fields_from(rest, labeled, remaining)
       ELSE IF canon2 # None /\ Len(parts) >= 2
            THEN _extract_labeled_fields_from(
                   rest, put(labeled, canon2, after_first_word(line)), remaining)
       ELSE _extract_labeled_fields_from(rest, labeled, Append(remaining, line))

_extract_labeled_fields(lines) ==
  _extract_labeled_fields_from(lines, << >>, << >>)

\* the stop test shared by collect_block and extract_composition_from_lines
is_key_line(low) ==
  \/ starts_with_key_sep(low)
  \/ first_space_token(low) \in STOP_KEYS /\ Len(split(low)) >= 2

RECURSIVE collect_block_from(_, _, _, _)
collect_block_from(lines, header_aliases, collecting, result) ==
  IF lines = << >> THEN result
  ELSE
    LET line == Head(lines)
        rest == Tail(lines)
        low == strip(lower(line))
    IN IF is_header_colon(low)
       THEN collect_block_from(rest, header_aliases, TRUE,
              IF truthy(after_colon(line))
              THEN Append(result, after_colon(line)) ELSE result)
       ELSE IF low \in header_aliases
       THEN collect_block_from(rest, header_aliases, TRUE, result)
       ELSE IF ~collecting
       THEN collect_block_from(rest, header_aliases, FALSE, result)
       ELSE IF is_key_line(low) THEN result
       ELSE collect_block_from(rest, header_aliases, TRUE, Append(result, line))

collect_block(lines, header_key) ==
  collect_block_from(lines, aliases_of(header_key), FALSE, << >>)

RECURSIVE ingredients_from(_, _)
ingredients_from(lines, acc) ==
  IF lines = << >> THEN acc
  ELSE
    LET line == Head(lines)
        rest == Tail(lines)
        low == strip(lower(line))
    IN IF low = "" THEN ingredients_from(rest, acc)
       ELSE IF \/ _IKPU_ANY_RE(line) # None
               \/ _PAIR_RE(line).ok
               \/ _PRICE_LINE_RE(line)
               \/ _COMPOSITION_STOP_RE(line)
               \/ is_key_line(low)
       THEN acc
       ELSE IF has_alpha(line) THEN ingredients_from(rest, Append(acc, strip(line)))
       ELSE ingredients_from(rest, acc)

extract_composition_from_lines(lines) ==
  LET ingredients == ingredients_from(lines, << >>)
  IN IF ingredients # << >> THEN join_comma(ingredients) ELSE NoParts

_detect_structured(labeled, lines) ==
  \/ Cardinality(DOMAIN labeled) >= 2
  \/ DOMAIN labeled \cap {"price", "ikpu", "category", "weight"} # {}
  \/ \E i \in DOMAIN lines : strip(lower(lines[i])) \in aliases_of("composition")

-----------------------------------------------------------------------------
(* dish_parser.py: the two parsers *)

EmptyMeta ==
  [weight_source |-> None, price_source |-> None, composition_source |-> None,
   ikpu_source |-> None, structured_detected |-> FALSE]

EmptyDish ==
  [name |-> None, composition |-> NoParts, weight |-> None, price |-> NoPrice,
   prices |-> << >>, ikpu |-> None, meta |-> EmptyMeta]

\* Python truthiness of a price (None and 0 are falsy)
truthy_price(p) == p # NoPrice /\ p # 0

\* the first of the indices hits (those of the lines passing a loop's tests),
\* 0 if there is none
first_index(hits) == IF hits = {} THEN 0 ELSE min_of(hits)

\* the "variant - price" lines, in order (the MULTI PRICE loop of both parsers)
RECURSIVE multi_prices(_)
multi_prices(lines) ==
  IF lines = << >> THEN << >>
  ELSE LET m == _PAIR_RE(Head(lines))
           pv == IF m.ok THEN _digits_to_int(m.value) ELSE NoPrice
       IN IF m.ok /\ pv # NoPrice
          THEN <<[weight |-> strip(m.key), price |-> pv]>> \o multi_prices(Tail(lines))
          ELSE multi_prices(Tail(lines))

min_price(prices) == min_of({prices[i].price : i \in DOMAIN prices})

\* _IKPU_ANY_RE.search("\n".join(lines))
ikpu_anywhere(lines) ==
  LET i == first_index({j \in DOMAIN lines : _IKPU_ANY_RE(lines[j]) # None})
  IN IF i = 0 THEN None ELSE _IKPU_ANY_RE(lines[i])

\* steps 1-4 of the composition cascade, shared by both parsers:
\* [value, source], value NoParts when no step yields one
cascade_fallback(c4) ==
  IF truthy_parts(c4) THEN [value |-> c4, source |-> "fallback_from_text"]
  ELSE [value |-> NoParts, source |-> None]

cascade_pick(c1, labeled, pool) ==
  IF truthy_parts(c1) THEN [value |-> c1, source |-> "composition_block"]
  ELSE IF "composition" \in DOMAIN labeled /\ truthy(labeled["composition"])
  THEN [value |-> comma_parts(strip(labeled["composition"])),
        source |-> "explicit_composition_attr"]
  ELSE IF "description" \in DOMAIN labeled /\ truthy(labeled["description"])
  THEN [value |-> comma_parts(strip(labeled["description"])),
        source |-> "description_used_as_composition"]
  ELSE cascade_fallback(extract_composition_from_lines(pool))

cascade_block(comp_block, labeled, pool) ==
  cascade_pick(IF comp_block # << >>
               THEN extract_composition_from_lines(comp_block) ELSE NoParts,
               labeled, pool)

composition_cascade(lines, labeled, pool) ==
  cascade_block(collect_block(lines, "composition"), labeled, pool)

\* parse(): the legacy fallback, the longest candidate line (first among equals)
longest_of(candidates) ==
  IF candidates = << >> THEN None
  ELSE strip(candidates[min_of({i \in DOMAIN candidates :
                                  \A j \in DOMAIN candidates :
                                    strlen(candidates[j]) <= strlen(candidates[i])})])

legacy_longest_line(pool, name) ==
  longest_of(SelectSeq(pool, LAMBDA line :
               /\ line # name
               /\ _IKPU_ANY_RE(line) = None
               /\ ~_PAIR_RE(line).ok
               /\ ~_PRICE_LINE_RE(line)
               /\ _WEIGHT_RE(line) = None
               /\ ~contains_stop_key(lower(line))
               /\ has_alpha(line)))

\* parse(): the price candidates of one line of the unstructured fallback
line_price_candidates(l) ==
  IF _IKPU_ANY_RE(l) # None \/ _WEIGHT_RE(l) # None THEN {}
  ELSE IF _PRICE_LINE_RE(l) THEN {_digits_to_int(l)} \ {NoPrice}
  ELSE {_digits_to_int(findall_price(l)[i]) : i \in DOMAIN findall_price(l)}
       \ {NoPrice}

fallback_price_candidates(lines) ==
  UNION {line_price_candidates(strip(lower(lines[i]))) : i \in DOMAIN lines}

\* the record both parsers return
dish(name, comp, weight, price, prices, ikpu, ikpu_tag, structured) ==
  [name |-> name,
   composition |-> comp.value,
   weight |-> weight.value,
   price |-> price.value,
   prices |-> prices,
   ikpu |-> ikpu,
   meta |-> [weight_source |-> weight.source,
             price_source |-> price.source,
             composition_source |-> comp.source,
             ikpu_source |-> IF ikpu # None THEN ikpu_tag ELSE None,
             structured_detected |-> structured]]

\* name: the labeled name, else the line at index n (0 when there is none)
name_of(lines, labeled, n) ==
  IF "name" \in DOMAIN labeled /\ truthy(labeled["name"])
  THEN strip(labeled["name"])
  ELSE IF n # 0 THEN strip(lines[n]) ELSE None

\* ---- parse(): the manual flow ----

\* SINGLE PRICE / WEIGHT from the labeled fields
parse_price_labeled(prices, price1, lab_price) ==
  [value |-> IF lab_price # NoPrice THEN lab_price ELSE price1,
   source |-> IF lab_price # NoPrice THEN "explicit_price_attr"
              ELSE IF prices # << >> THEN "multi_price_pairs" ELSE None]

parse_price_first(labeled, structured, prices, price1) ==
  parse_price_labeled(prices, price1,
    IF structured /\ ~truthy_price(price1) /\ "price" \in DOMAIN labeled
    THEN _digits_to_int(labeled["price"]) ELSE NoPrice)

parse_price(labeled, structured, prices) ==
  parse_price_first(labeled, structured, prices,
    IF prices # << >> THEN min_price(prices) ELSE NoPrice)

parse_weight_labeled(lab_weight) ==
  [value |-> IF lab_weight # None THEN strip(lab_weight) ELSE None,
   source |-> IF lab_weight # None THEN "explicit_weight_attr" ELSE None]

parse_weight(labeled, structured) ==
  parse_weight_labeled(IF structured /\ "weight" \in DOMAIN labeled
                       THEN _WEIGHT_RE(labeled["weight"]) ELSE None)

\* FALLBACKS, taken only when there are no variants and no price yet
parse_late_weight(lines, late, weight2, w) ==
  IF late /\ ~truthy(weight2.value) /\ w # 0
  THEN [value |-> strip(_WEIGHT_RE(lower(lines[w]))),
        source |-> "fallback_from_text"]
  ELSE weight2

parse_late_price(late, price2, cands) ==
  IF late /\ cands # {}
  THEN [value |-> min_of(cands), source |-> "fallback_from_text"]
  ELSE price2

parse_composition_legacy(cc, legacy) ==
  IF legacy # None
  THEN [value |-> comma_parts(legacy), source |-> "legacy_longest_line_fallback"]
  ELSE cc

parse_composition(cc, pool, name) ==
  IF truthy_parts(cc.value) THEN cc
  ELSE parse_composition_legacy(cc, legacy_longest_line(pool, name))

parse_late(lines, labeled, structured, pool, prices, name, price2, weight2, late) ==
  dish(name,
       parse_composition(composition_cascade(lines, labeled, pool), pool, name),
       parse_late_weight(lines, late, weight2,
         first_index({i \in DOMAIN lines : _WEIGHT_RE(lower(lines[i])) # None})),
       parse_late_price(late, price2, fallback_price_candidates(lines)),
       prices, ikpu_anywhere(lines), "detected_anywhere", structured)

parse_priced(lines, labeled, structured, pool, prices, name, price2) ==
  parse_late(lines, labeled, structured, pool, prices, name, price2,
             parse_weight(labeled, structured),
             prices = << >> /\ ~truthy_price(price2.value))

parse_named(lines, labeled, structured, pool, prices, name) ==
  parse_priced(lines, labeled, structured, pool, prices, name,
               parse_price(labeled, structured, prices))

parse_pool(lines, labeled, structured, pool) ==
  parse_named(lines, labeled, structured, pool, multi_prices(lines),
    name_of(lines, labeled,
      first_index({i \in DOMAIN lines :
        /\ strip(lower(lines[i])) # ""
        /\ ~has_digit(strip(lower(lines[i])))
        /\ strip(lower(lines[i])) \notin STOP_KEYS
        /\ ~starts_with_key_sep(strip(lower(lines[i])))})))

parse_structured(lines, ef, structured) ==
  parse_pool(lines, ef.labeled, structured,
             IF structured THEN ef.remaining ELSE lines)

parse_labeled(lines, ef) ==
  parse_structured(lines, ef, _detect_structured(ef.labeled, lines))

parse_lines(lines) ==
  IF lines = << >> THEN EmptyDish
  ELSE parse_labeled(lines, _extract_labeled_fields(lines))

parse(texts) == parse_lines(normalize_texts(texts))

\* ---- parse_bulk_position(): one position of the bulk flow ----

\* PRICE: variants, else a lone price line, else the labeled price
bulk_price_pick(lines, prices, lab_price, pl) ==
  IF prices # << >>
  THEN [value |-> min_price(prices), source |-> "multi_price_pairs"]
  ELSE IF ~truthy_price(lab_price) /\ pl # 0
  THEN [value |-> _digits_to_int(lines[pl]), source |-> "fallback_from_text"]
  ELSE [value |-> lab_price,
        source |-> IF lab_price # NoPrice THEN "explicit_price_attr" ELSE None]

bulk_price(lines, labeled, prices) ==
  bulk_price_pick(lines, prices,
    IF prices = << >> /\ "price" \in DOMAIN labeled /\ truthy(labeled["price"])
    THEN _digits_to_int(labeled["price"]) ELSE NoPrice,
    first_index({i \in DOMAIN lines :
      /\ _IKPU_ANY_RE(lines[i]) = None
      /\ _PRICE_LINE_RE(lines[i])
      /\ _digits_to_int(lines[i]) # NoPrice}))

\* WEIGHT: the weight attribute, else the labeled weight, else a weight in the text
bulk_weight_pick(w1, w2, w3) ==
  [value |-> IF truthy(w1) THEN w1 ELSE IF truthy(w2) THEN w2 ELSE w3,
   source |-> IF truthy(w1) THEN "explicit_weight_attr"
              ELSE IF truthy(w2) THEN "labeled_weight_block"
              ELSE IF w3 # None THEN "fallback_from_text"
              ELSE None]

bulk_weight_text(lines, w1, w2, weight_key_present, wf) ==
  bulk_weight_pick(w1, w2,
    IF ~truthy(w1) /\ ~truthy(w2) /\ ~weight_key_present /\ wf # 0
    THEN strip(_WEIGHT_RE(lines[wf])) ELSE None)

bulk_weight_labeled(lines, wa, w1, lab_has, w2) ==
  bulk_weight_text(lines, w1, w2, wa # 0 \/ (~truthy(w1) /\ lab_has),
    first_index({i \in DOMAIN lines :
      _IKPU_ANY_RE(lines[i]) = None /\ _WEIGHT_RE(lines[i]) # None}))

bulk_weight_attr(lines, labeled, wa, w1, lab_has) ==
  bulk_weight_labeled(lines, wa, w1, lab_has,
    IF ~truthy(w1) /\ lab_has
    THEN _normalize_weight_value(labeled["weight"]) ELSE None)

bulk_weight_at(lines, labeled, wa) ==
  bulk_weight_attr(lines, labeled, wa,
    IF wa # 0 THEN _normalize_weight_value(_WEIGHT_ATTR_RE(lines[wa])) ELSE None,
    "weight" \in DOMAIN labeled /\ truthy(labeled["weight"]))

bulk_weight(lines, labeled) ==
  bulk_weight_at(lines, labeled,
    first_index({i \in DOMAIN lines : _WEIGHT_ATTR_RE(lines[i]) # None}))

bulk_priced(lines, labeled, structured, pool, prices) ==
  dish(name_of(lines, labeled,
         first_index({i \in DOMAIN lines :
           /\ strip(lower(lines[i])) # ""
           /\ strip(lower(lines[i])) \notin aliases_of("composition")
           /\ ~has_digit(strip(lower(lines[i])))
           /\ ~contains_stop_key(strip(lower(lines[i])))})),
       composition_cascade(lines, labeled, pool),
       bulk_weight(lines, labeled),
       bulk_price(lines, labeled, prices),
       prices, ikpu_anywhere(lines), "explicit_key", structured)

bulk_structured(lines, ef, structured) ==
  bulk_priced(lines, ef.labeled, structured,
              IF structured THEN ef.remaining ELSE lines, multi_prices(lines))

bulk_labeled(lines, ef) ==
  bulk_structured(lines, ef, _detect_structured(ef.labeled, lines))

bulk_lines(lines) ==
  IF lines = << >> THEN EmptyDish
  ELSE bulk_labeled(lines, _extract_labeled_fields(lines))

parse_bulk_position(texts) == bulk_lines(normalize_texts(texts))

-----------------------------------------------------------------------------
(* sessions.py: menu rows, manual dish draft, bulk buffer and review *)

\* faulty variant: the link is not stored
set_sheet_url_ignored(S, u, url) == ensure_session(S, u)

set_sheet_url(S, u, url) ==
  [ensure_session(S, u) EXCEPT ![u].menu.sheet_url = strip(url)]

\* faulty variant: the new rows replace the accumulated ones
add_menu_rows_replaces(S, u, rows) ==
  [ensure_session(S, u) EXCEPT ![u].menu.rows = rows]

\* faulty variant: the new rows go in front of the accumulated ones
add_menu_rows_in_front(S, u, rows) ==
  [ensure_session(S, u) EXCEPT ![u].menu.rows = rows \o @]

\* faulty variant: one rows list serves every session
add_menu_rows_shared_list(S, u, rows) ==
  [v \in DOMAIN ensure_session(S, u) |->
     [ensure_session(S, u)[v] EXCEPT !.menu.rows = @ \o rows]]

add_menu_rows(S, u, rows) ==
  [ensure_session(S, u) EXCEPT ![u].menu.rows = @ \o rows]

add_text(S, u, text) ==
  IF ~truthy(text) THEN S
  ELSE [ensure_session(S, u) EXCEPT ![u].texts = Append(@, strip(text))]

add_photo(S, u, file_id) ==
  IF ~truthy(file_id) THEN S
  ELSE [ensure_session(S, u) EXCEPT ![u].photos = Append(@, file_id)]

set_parsed(S, u, parsed) == [ensure_session(S, u) EXCEPT ![u].parsed = parsed]

set_edit_mode(S, u, field) ==
  [ensure_session(S, u) EXCEPT ![u].edit_mode = field]

bulk_add_photo(S, u, photo_obj) ==
  IF u \notin DOMAIN S THEN S
  ELSE [S EXCEPT ![u].bulk.buffer =
          Append(@, [type |-> "photo", photo |-> photo_obj,
                     photo_message_id |-> photo_obj.message_id])]

\* faulty variant: the text entry is put at the front of the buffer
bulk_add_text_in_front(S, u, text) ==
  IF ~truthy(text) \/ u \notin DOMAIN S THEN S
  ELSE [S EXCEPT ![u].bulk.buffer =
          <<[type |-> "text", value |-> strip(text)]>> \o @]

bulk_add_text(S, u, text) ==
  IF ~truthy(text) \/ u \notin DOMAIN S THEN S
  ELSE [S EXCEPT ![u].bulk.buffer =
          Append(@, [type |-> "text", value |-> strip(text)])]

\* faulty variant: the position still open at the end of the buffer is lost
RECURSIVE split_from_forgets_last(_, _, _)
split_from_forgets_last(buffer, positions, current) ==
  IF buffer = << >> THEN positions
  ELSE LET item == Head(buffer)
       IN IF item.type = "photo"
          THEN split_from_forgets_last(Tail(buffer), positions \o current,
                 << [photo |-> item.photo,
                     photo_message_id |-> item.photo_message_id,
                     texts |-> << >>,
                     parsed |-> 0] >>)
          ELSE IF current = << >>
          THEN split_from_forgets_last(Tail(buffer), positions, current)
          ELSE split_from_forgets_last(Tail(buffer), positions,
                 << [current[1] EXCEPT !.texts = Append(@, item.value)] >>)

\* the loop of bulk_split_into_positions; current is << >> (None) or <<position>>
RECURSIVE split_from(_, _, _)
split_from(buffer, positions, current) ==
  IF buffer = << >> THEN positions \o current
  ELSE LET item == Head(buffer)
       IN IF item.type = "photo"
          THEN split_from(Tail(buffer), positions \o current,
                 << [photo |-> item.photo,
                     photo_message_id |-> item.photo_message_id,
                     texts |-> << >>,
                     parsed |-> 0] >>)
          ELSE IF current = << >>
          THEN split_from(Tail(buffer), positions, current)
          ELSE split_from(Tail(buffer), positions,
                 << [current[1] EXCEPT !.texts = Append(@, item.value)] >>)

\* faulty variant: segmentation consumes the buffer
bulk_split_drains_buffer(S, u) ==
  LET S1 == ensure_session(S, u)
  IN [S1 EXCEPT ![u].bulk.positions = split_from(S1[u].bulk.buffer, << >>, << >>),
                ![u].bulk.current_index = 0,
                ![u].bulk.buffer = << >>]

bulk_split_into_positions(S, u) ==
  LET S1 == ensure_session(S, u)
  IN [S1 EXCEPT ![u].bulk.positions = split_from(S1[u].bulk.buffer, << >>, << >>),
                ![u].bulk.current_index = 0]

bulk_total(S, u) == Len(ensure_session(S, u)[u].bulk.positions)

\* index (1-based) of the current position, 0 when bulk_get_current is None
bulk_get_current(S, u) ==
  LET b == ensure_session(S, u)[u].bulk
  IN IF 0 <= b.current_index /\ b.current_index < Len(b.positions)
     THEN b.current_index + 1 ELSE 0

\* faulty variant: the record is not stored in the position
bulk_set_current_parsed_nowhere(S, u, parsed) == ensure_session(S, u)

\* faulty variant: the record is stored one position too far
bulk_set_current_parsed_next(S, u, parsed) ==
  LET S1 == ensure_session(S, u)
      idx == S1[u].bulk.current_index + 1
  IN IF 0 <= idx /\ idx < Len(S1[u].bulk.positions)
     THEN [S1 EXCEPT ![u].bulk.positions[idx + 1].parsed = parsed]
     ELSE S1

bulk_set_current_parsed(S, u, parsed) ==
  LET S1 == ensure_session(S, u)
      idx == S1[u].bulk.current_index
  IN IF 0 <= idx /\ idx < Len(S1[u].bulk.positions)
     THEN [S1 EXCEPT ![u].bulk.positions[idx + 1].parsed = parsed]
     ELSE S1

bulk_next(S, u) == [ensure_session(S, u) EXCEPT ![u].bulk.current_index = @ + 1]

-----------------------------------------------------------------------------
(* bot.py: export rows; sheets.py: the fixed column order *)

\* faulty variant: every variant row carries the record's scalar weight
build_sheet_items_scalar_weight(parsed, photo_url) ==
  IF parsed.prices # << >>
  THEN [i \in DOMAIN parsed.prices |->
          [Poziciya |-> parsed.name,
           Opisanie |-> parsed.composition,
           Ves |-> parsed.weight,
           Cena |-> parsed.prices[i].price,
           KodIKPU |-> parsed.ikpu,
           Kartinka |-> photo_url]]
  ELSE << [Poziciya |-> parsed.name,
           Opisanie |-> parsed.composition,
           Ves |-> parsed.weight,
           Cena |-> parsed.price,
           KodIKPU |-> parsed.ikpu,
           Kartinka |-> photo_url] >>

\* the row dict; its keys are the sheet's column titles, transliterated
build_sheet_items(parsed, photo_url) ==
  IF parsed.prices # << >>
  THEN [i \in DOMAIN parsed.prices |->
          [Poziciya |-> parsed.name,
           Opisanie |-> parsed.composition,
           Ves |-> parsed.prices[i].weight,
           Cena |-> parsed.prices[i].price,
           KodIKPU |-> parsed.ikpu,
           Kartinka |-> photo_url]]
  ELSE << [Poziciya |-> parsed.name,
           Opisanie |-> parsed.composition,
           Ves |-> parsed.weight,
           Cena |-> parsed.price,
           KodIKPU |-> parsed.ikpu,
           Kartinka |-> photo_url] >>

\* faulty variant: the weight column comes before the price column
build_fixed_row_weight_first(values) ==
  << values.Poziciya, values.Opisanie, values.Ves, values.Cena,
     values.KodIKPU, values.Kartinka >>

build_fixed_row(values) ==
  << values.Poziciya, values.Opisanie, values.Cena, values.Ves,
     values.KodIKPU, values.Kartinka >>

\* the durable URL built from bot.get_file's file_path
photo_url_of(file_id) ==
  CASE file_id = "f1" -> "https://api.telegram.org/file/bot/photos/f1.jpg"
    [] file_id = "d1" -> "https://api.telegram.org/file/bot/documents/d1.jpg"
    [] OTHER -> None

-----------------------------------------------------------------------------
(* The record heap and the suspended handlers *)

Alloc(H) == min_of(ObjIds \ DOMAIN H)

\* the record a reference denotes; pos.get("parsed") or s.get("parsed") or {}
\* ends in the empty dict, whose .get() is None for every key
deref(H, id) == IF id = 0 THEN EmptyDish ELSE H[id]

Refs(S, T) ==
  {S[u].parsed : u \in DOMAIN S}
  \cup UNION {{S[u].bulk.positions[i].parsed : i \in DOMAIN S[u].bulk.positions} :
              u \in DOMAIN S}
  \cup {T[k].parsed : k \in DOMAIN T}

\* records nothing refers to are gone
Collect(H, S, T) == [id \in DOMAIN H \cap Refs(S, T) |-> H[id]]

IdleTask ==
  [kind |-> "idle", user |-> 0, parsed |-> 0, file_id |-> None,
   live |-> FALSE, sheet_url |-> None, rows |-> << >>]

FreeSlots(T) == {k \in DOMAIN T : T[k].kind = "idle"}

Suspend(T, task) == [T EXCEPT ![min_of(FreeSlots(T))] = task]

NoTask == \A k \in TaskIds : tasks[k].kind = "idle"

\* menu_ready keeps the session dict `s` across its await: once the registry
\* drops that dict (clear_session) the handler still reads the dropped one
Orphan(T, S, u) ==
  [k \in DOMAIN T |->
     IF T[k].kind = "menu_ready" /\ T[k].user = u /\ T[k].live /\ u \in DOMAIN S
     THEN [T[k] EXCEPT !.live = FALSE,
                       !.sheet_url = S[u].menu.sheet_url,
                       !.rows = S[u].menu.rows]
     ELSE T[k]]

NoExport == [sheet_url |-> None, items |-> << >>, sent |-> << >>, result |-> "none"]

Say(u, msg) == [to |-> u, msg |-> msg, export |-> NoExport]

Commit0(S, H, T, o) ==
  /\ sessions' = S
  /\ heap' = Collect(H, S, T)
  /\ tasks' = T
  /\ out' = o

Commit(S, H, T, o) == Commit0(S, H, T, o) /\ edits' = edits

-----------------------------------------------------------------------------
(* Inputs of the handlers *)

SheetUrls == {"https://docs.google.com/spreadsheets/d/menu1"}
Texts == {"400 g - 60000", "-"}
Captions == {None, "Plov"}
PhotoInputs == {[file_id |-> "f1", kind |-> "photo", message_id |-> 11]}
DocumentInputs == {[file_id |-> "d1", kind |-> "document", message_id |-> 12]}
EditFields == {"name", "composition", "weight", "prices", "ikpu"}

-----------------------------------------------------------------------------
(* bot.py: review and edit helpers *)

\* show_bulk_current up to its first await: the new registry, heap and reply
show_bulk_current(S, H, u) ==
  LET S0 == ensure_session(S, u)
      cur == bulk_get_current(S, u)
      id == Alloc(H)
      S1 == bulk_set_current_parsed(set_parsed(S0, u, id), u, id)
  IN IF cur = 0
     THEN [S |-> set_mode(S0, u, "manual_menu"), H |-> H, msg |-> "positions_done"]
     ELSE [S |-> S1,
           H |-> (id :> parse_bulk_position(S0[u].bulk.positions[cur].texts)) @@ H,
           msg |-> "review_position"]

\* the price lines of apply_edit: "label - number", others dropped
RECURSIVE edit_prices(_)
edit_prices(lines) ==
  IF lines = << >> THEN << >>
  ELSE LET m == edit_split(Head(lines))
           d == IF m.ok THEN digits(m.value) ELSE [len |-> 0, val |-> 0]
       IN IF m.ok /\ d.len > 0
          THEN <<[weight |-> m.key, price |-> d.val]>> \o edit_prices(Tail(lines))
          ELSE edit_prices(Tail(lines))

\* faulty variant: clearing the prices clears the weight as well
edited_clear_drops_weight(rec, edit_mode, text) ==
  IF text \in {"-", ""}
  THEN CASE edit_mode = "prices" ->
              [rec EXCEPT !.prices = << >>, !.price = NoPrice, !.weight = None]
         [] edit_mode = "name" -> [rec EXCEPT !.name = None]
         [] edit_mode = "composition" -> [rec EXCEPT !.composition = NoParts]
         [] edit_mode = "weight" -> [rec EXCEPT !.weight = None]
         [] edit_mode = "ikpu" -> [rec EXCEPT !.ikpu = None]
  ELSE CASE edit_mode = "prices" ->
              LET new_prices == edit_prices(splitlines(text))
              IN [rec EXCEPT !.prices = new_prices,
                             !.price = IF new_prices # << >>
                                       THEN min_price(new_prices) ELSE NoPrice,
                             !.weight = None]
         [] edit_mode = "name" -> [rec EXCEPT !.name = text]
         [] edit_mode = "composition" -> [rec EXCEPT !.composition = comma_parts(text)]
         [] edit_mode = "weight" -> [rec EXCEPT !.weight = text]
         [] edit_mode = "ikpu" -> [rec EXCEPT !.ikpu = text]

\* the record after apply_edit's assignment (text is the stripped message text;
\* of the clear tokens only the ASCII "-" and "" can be written here)
edited(rec, edit_mode, text) ==
  IF text \in {"-", ""}
  THEN CASE edit_mode = "prices" -> [rec EXCEPT !.prices = << >>, !.price = NoPrice]
         [] edit_mode = "name" -> [rec EXCEPT !.name = None]
         [] edit_mode = "composition" -> [rec EXCEPT !.composition = NoParts]
         [] edit_mode = "weight" -> [rec EXCEPT !.weight = None]
         [] edit_mode = "ikpu" -> [rec EXCEPT !.ikpu = None]
  ELSE CASE edit_mode = "prices" ->
              LET new_prices == edit_prices(splitlines(text))
              IN [rec EXCEPT !.prices = new_prices,
                             !.price = IF new_prices # << >>
                                       THEN min_price(new_prices) ELSE NoPrice,
                             !.weight = None]
         [] edit_mode = "name" -> [rec EXCEPT !.name = text]
         [] edit_mode = "composition" -> [rec EXCEPT !.composition = comma_parts(text)]
         [] edit_mode = "weight" -> [rec EXCEPT !.weight = text]
         [] edit_mode = "ikpu" -> [rec EXCEPT !.ikpu = text]

\* faulty variant: the pending edit field survives the edit
apply_edit_keeps_pending(S, H, u, edit_mode, parsed, text) ==
  LET H1 == [H EXCEPT ![parsed] = edited(@, edit_mode, strip(text))]
  IN [S |-> IF get_mode(S, u) = "bulk_review"
            THEN bulk_set_current_parsed(S, u, parsed) ELSE S,
      H |-> H1]

\* apply_edit up to its first await
apply_edit(S, H, u, edit_mode, parsed, text) ==
  LET H1 == [H EXCEPT ![parsed] = edited(@, edit_mode, strip(text))]
      S1 == set_edit_mode(S, u, None)
  IN [S |-> IF get_mode(S1, u) = "bulk_review"
            THEN bulk_set_current_parsed(S1, u, parsed) ELSE S1,
      H |-> H1]

-----------------------------------------------------------------------------
(* bot.py: the handlers.  A handler runs atomically up to an await; the    *)
(* awaits that are followed by reads or writes of the session split it in  *)
(* two actions (bot.get_file, and message.answer in bulk_done and          *)
(* menu_ready).  With seq = TRUE a handler starts only when no other is    *)
(* suspended: handlers then run to completion one at a time.               *)

Init ==
  /\ sessions = [u \in {} |-> _new_session]
  /\ heap = [id \in {} |-> EmptyDish]
  /\ tasks = [k \in TaskIds |-> IdleTask]
  /\ out = Say(0, "none")
  /\ edits = 0

Starts(seq) == seq => NoTask

start_cmd(u, seq) ==
  /\ Starts(seq)
  /\ Commit(ensure_session(sessions, u), heap, tasks, Say(u, "start"))

go_home(u, seq) ==
  /\ Starts(seq)
  /\ Commit(ensure_session(clear_session(sessions, u), u), heap,
            Orphan(tasks, sessions, u), Say(u, "home"))

help_message(u, seq) ==
  /\ Starts(seq)
  /\ Commit(sessions, heap, tasks, Say(u, "help"))

manual_start(u, seq) ==
  /\ Starts(seq)
  /\ Commit(start_manual_flow(sessions, u), heap, tasks,
            Say(u, "manual_start"))

bulk_start(u, seq) ==
  /\ Starts(seq)
  /\ Commit(start_bulk_flow(sessions, u), heap, tasks,
            Say(u, "bulk_start"))

set_sheet(u, seq, text) ==
  /\ Starts(seq)
  /\ LET S0 == ensure_session(sessions, u)
         mode == get_mode(S0, u)
         S1 == set_sheet_url(S0, u, strip(text))
     IN IF mode = "manual_wait_sheet"
        THEN Commit(set_mode(S1, u, "manual_menu"), heap, tasks,
                    Say(u, "sheet_bound_manual"))
        ELSE IF mode = "bulk_wait_sheet"
        THEN Commit(set_mode(S1, u, "bulk_collect"), heap, tasks,
                    Say(u, "sheet_bound_bulk"))
        ELSE Commit(S1, heap, tasks, Say(u, "choose_mode_first"))

manual_new_dish(u, seq) ==
  /\ Starts(seq)
  /\ IF u \notin DOMAIN sessions \/ ~truthy(sessions[u].menu.sheet_url)
     THEN Commit(sessions, heap, tasks, Say(u, "need_sheet"))
     ELSE Commit(set_mode(reset_dish(sessions, u), u, "dish_collect"), heap,
                 tasks, Say(u, "send_dish"))

cancel_dish(u, seq) ==
  /\ Starts(seq)
  /\ LET mode == get_mode(sessions, u)
     IN IF mode \in {"dish_collect", "bulk_review"}
        THEN Commit(reset_dish(sessions, u), heap, tasks,
                    Say(u, IF mode = "bulk_review" THEN "edits_cancelled"
                           ELSE "dish_cancelled"))
        ELSE Commit(sessions, heap, tasks, Say(u, "nothing_to_cancel"))

\* the common part of collect_photo and collect_document
collect_image(S0, u, photo_obj, caption) ==
  LET mode == get_mode(S0, u)
      n == IF truthy(caption) THEN 2 ELSE 1
  IN IF mode = "dish_collect"
     THEN /\ Len(S0[u].photos) < MaxDraft
          /\ truthy(caption) => Len(S0[u].texts) < MaxDraft
          /\ Commit(add_text(add_photo(S0, u, photo_obj.file_id), u, caption),
                    heap, tasks, Say(u, "nothing"))
     ELSE IF mode = "bulk_collect"
     THEN /\ Len(S0[u].bulk.buffer) + n <= MaxBuf
          /\ Commit(bulk_add_text(bulk_add_photo(S0, u, photo_obj), u, caption),
                    heap, tasks, Say(u, "nothing"))
     ELSE Commit(S0, heap, tasks, Say(u, "nothing"))

collect_photo(u, seq, photo_obj, caption) ==
  /\ Starts(seq)
  /\ collect_image(ensure_session(sessions, u), u, photo_obj, caption)

collect_document(u, seq, doc, is_image, caption) ==
  /\ Starts(seq)
  /\ IF ~is_image THEN Commit(sessions, heap, tasks, Say(u, "nothing"))
     ELSE collect_image(sessions, u, doc, caption)

\* bulk_confirm_and_next after bot.get_file returned (or with no file id)
confirm_finish(S, H, T, u, parsed, photo_url) ==
  LET items == build_sheet_items(deref(H, parsed), photo_url)
      r == show_bulk_current(bulk_next(add_menu_rows(S, u, items), u), H, u)
  IN Commit(r.S, r.H, T, Say(u, r.msg))

\* faulty variant: "done" on a draft also adds the dish's rows
ready_button_saves_dish(u, seq) ==
  /\ Starts(seq)
  /\ LET mode == get_mode(sessions, u)
         cur == bulk_get_current(sessions, u)
         pos == sessions[u].bulk.positions[cur]
         parsed == IF pos.parsed # 0 THEN pos.parsed ELSE sessions[u].parsed
         id == Alloc(heap)
     IN IF mode = "bulk_review"
        THEN IF cur = 0
             THEN Commit(sessions, heap, tasks, Say(u, "no_position"))
             ELSE IF truthy(pos.photo.file_id)
             THEN /\ FreeSlots(tasks) # {}
                  /\ Commit(sessions, heap,
                            Suspend(tasks, [IdleTask EXCEPT
                                              !.kind = "confirm", !.user = u,
                                              !.parsed = parsed,
                                              !.file_id = pos.photo.file_id]),
                            Say(u, "nothing"))
             ELSE confirm_finish(sessions, heap, tasks, u, parsed, None)
        ELSE IF mode = "dish_collect"
        THEN Commit(add_menu_rows(set_mode(set_parsed(sessions, u, id), u, "edit"),
                                  u, build_sheet_items(parse(sessions[u].texts), None)),
                    (id :> parse(sessions[u].texts)) @@ heap, tasks,
                    Say(u, "dish_card"))
        ELSE Commit(sessions, heap, tasks, Say(u, "nothing"))

ready_button(u, seq) ==
  /\ Starts(seq)
  /\ LET mode == get_mode(sessions, u)
         cur == bulk_get_current(sessions, u)
         pos == sessions[u].bulk.positions[cur]
         parsed == IF pos.parsed # 0 THEN pos.parsed ELSE sessions[u].parsed
         id == Alloc(heap)
     IN IF mode = "bulk_review"
        THEN IF cur = 0
             THEN Commit(sessions, heap, tasks, Say(u, "no_position"))
             ELSE IF truthy(pos.photo.file_id)
             THEN /\ FreeSlots(tasks) # {}
                  /\ Commit(sessions, heap,
                            Suspend(tasks, [IdleTask EXCEPT
                                              !.kind = "confirm", !.user = u,
                                              !.parsed = parsed,
                                              !.file_id = pos.photo.file_id]),
                            Say(u, "nothing"))
             ELSE confirm_finish(sessions, heap, tasks, u, parsed, None)
        ELSE IF mode = "dish_collect"
        THEN Commit(set_mode(set_parsed(sessions, u, id), u, "edit"),
                    (id :> parse(sessions[u].texts)) @@ heap, tasks,
                    Say(u, "dish_card"))
        ELSE Commit(sessions, heap, tasks, Say(u, "nothing"))

get_file_returns(k) ==
  /\ tasks[k].kind = "confirm"
  /\ confirm_finish(sessions, heap, [tasks EXCEPT ![k] = IdleTask],
                    tasks[k].user, tasks[k].parsed,
                    photo_url_of(tasks[k].file_id))

\* faulty variant: the cursor advances although bot.get_file raised
get_file_raises_advances(k) ==
  /\ tasks[k].kind = "confirm"
  /\ Commit(bulk_next(sessions, tasks[k].user), heap,
            [tasks EXCEPT ![k] = IdleTask],
            Say(tasks[k].user, "get_file_failed"))

get_file_raises(k) ==
  /\ tasks[k].kind = "confirm"
  /\ Commit(sessions, heap, [tasks EXCEPT ![k] = IdleTask],
            Say(tasks[k].user, "get_file_failed"))

edit_field(u, seq, field) ==
  /\ Starts(seq)
  /\ edits < MaxEdits
  /\ Commit0(set_edit_mode(sessions, u, field), heap, tasks,
             Say(u, "edit_prompt"))
  /\ edits' = edits + 1

collect_text(u, seq, text) ==
  /\ Starts(seq)
  /\ LET S0 == ensure_session(sessions, u)
         mode == get_mode(S0, u)
         s == S0[u]
         r == apply_edit(S0, heap, u, s.edit_mode, s.parsed, text)
     IN IF strip(text) = ""
        THEN Commit(S0, heap, tasks, Say(u, "nothing"))
        ELSE IF mode = "bulk_collect"
        THEN /\ Len(s.bulk.buffer) < MaxBuf
             /\ Commit(bulk_add_text(S0, u, strip(text)), heap, tasks, Say(u, "nothing"))
        ELSE IF mode = "dish_collect"
        THEN /\ Len(s.texts) < MaxDraft
             /\ Commit(add_text(S0, u, strip(text)), heap, tasks, Say(u, "nothing"))
        ELSE IF s.edit_mode # None /\ s.parsed # 0
        THEN Commit(r.S, r.H, tasks, Say(u, "updated"))
        ELSE Commit(S0, heap, tasks, Say(u, "nothing"))

\* faulty variant: only the session's existence is checked, not its sheet link
menu_ready_unchecked(u, seq) ==
  /\ Starts(seq)
  /\ IF u \notin DOMAIN sessions
     THEN Commit(sessions, heap, tasks, Say(u, "no_sheet"))
     ELSE /\ FreeSlots(tasks) # {}
          /\ Commit(sessions, heap,
                    Suspend(tasks, [IdleTask EXCEPT !.kind = "menu_ready",
                                                    !.user = u, !.live = TRUE]),
                    Say(u, "exporting"))

menu_ready(u, seq) ==
  /\ Starts(seq)
  /\ IF u \notin DOMAIN sessions \/ ~truthy(sessions[u].menu.sheet_url)
     THEN Commit(sessions, heap, tasks, Say(u, "no_sheet"))
     ELSE /\ FreeSlots(tasks) # {}
          /\ Commit(sessions, heap,
                    Suspend(tasks, [IdleTask EXCEPT !.kind = "menu_ready",
                                                    !.user = u, !.live = TRUE]),
                    Say(u, "exporting"))

\* faulty variant: only the first row reaches the spreadsheet
export_rows_first_only(sheet_url, items, ok) ==
  IF items = << >>
  THEN [sheet_url |-> sheet_url, items |-> items, sent |-> << >>,
        result |-> "nothing_to_send"]
  ELSE IF ok
  THEN [sheet_url |-> sheet_url, items |-> items,
        sent |-> << build_fixed_row(items[1]) >>,
        result |-> "appended"]
  ELSE [sheet_url |-> sheet_url, items |-> items, sent |-> << >>,
        result |-> "raised"]

\* sheets.export_rows; ok is whether the spreadsheet accepts the rows
export_rows(sheet_url, items, ok) ==
  IF items = << >>
  THEN [sheet_url |-> sheet_url, items |-> items, sent |-> << >>,
        result |-> "nothing_to_send"]
  ELSE IF ok
  THEN [sheet_url |-> sheet_url, items |-> items,
        sent |-> [i \in DOMAIN items |-> build_fixed_row(items[i])],
        result |-> "appended"]
  ELSE [sheet_url |-> sheet_url, items |-> items, sent |-> << >>,
        result |-> "raised"]

\* faulty variant: the session is dropped before the rows are exported
menu_ready_export_clears_first(k, ok) ==
  /\ tasks[k].kind = "menu_ready"
  /\ LET t == tasks[k]
         u == t.user
         menu == IF t.live THEN sessions[u].menu
                 ELSE [sheet_url |-> t.sheet_url, rows |-> t.rows]
         e == export_rows(menu.sheet_url, menu.rows, ok)
         T == [tasks EXCEPT ![k] = IdleTask]
     IN /\ ok => truthy(menu.sheet_url)
        /\ Commit(ensure_session(clear_session(sessions, u), u), heap,
                  Orphan(T, sessions, u),
                  [Say(u, IF e.result = "raised" THEN "export_failed"
                          ELSE "exported") EXCEPT !.export = e])

\* menu_ready enters sheets.export_rows with rows to send: a plain call, not
\* an await, so the event loop runs nothing else until it returns
export_call(k) ==
  /\ tasks[k].kind = "menu_ready"
  /\ LET t == tasks[k]
     IN IF t.live THEN sessions[t.user].menu.rows # << >> ELSE t.rows # << >>
  /\ Commit(sessions, heap, [tasks EXCEPT ![k].kind = "export_call"], out)

\* no handler is inside sheets.export_rows
loop_free == \A k \in TaskIds : tasks[k].kind # "export_call"

\* menu_ready after its first message.answer
menu_ready_export(k, ok) ==
  /\ tasks[k].kind \in {"menu_ready", "export_call"}
  /\ LET t == tasks[k]
         u == t.user
         menu == IF t.live THEN sessions[u].menu
                 ELSE [sheet_url |-> t.sheet_url, rows |-> t.rows]
         e == export_rows(menu.sheet_url, menu.rows, ok)
         T == [tasks EXCEPT ![k] = IdleTask]
     IN /\ ok => truthy(menu.sheet_url)
        /\ IF e.result = "raised"
           THEN Commit(sessions, heap, T, [Say(u, "export_failed") EXCEPT !.export = e])
           ELSE Commit(ensure_session(clear_session(sessions, u), u), heap,
                       Orphan(T, sessions, u),
                       [Say(u, "exported") EXCEPT !.export = e])

bulk_done(u, seq) ==
  /\ Starts(seq)
  /\ LET mode == get_mode(sessions, u)
         S1 == bulk_split_into_positions(sessions, u)
     IN IF mode # "bulk_collect"
        THEN Commit(sessions, heap, tasks, Say(u, "bulk_not_active"))
        ELSE IF S1[u].bulk.positions = << >>
        THEN Commit(S1, heap, tasks, Say(u, "no_positions"))
        ELSE /\ FreeSlots(tasks) # {}
             /\ Commit(set_mode(stop_bulk(S1, u), u, "bulk_review"), heap,
                       Suspend(tasks, [IdleTask EXCEPT !.kind = "bulk_done",
                                                       !.user = u]),
                       Say(u, "menu_accepted"))

\* bulk_done after its message.answer: show_bulk_current
bulk_done_show(k) ==
  /\ tasks[k].kind = "bulk_done"
  /\ LET u == tasks[k].user
         r == show_bulk_current(sessions, heap, u)
     IN Commit(r.S, r.H, [tasks EXCEPT ![k] = IdleTask], Say(u, r.msg))

-----------------------------------------------------------------------------
(* Specifications.                                                         *)
(*                                                                         *)
(* SpecSeq: every handler, each running to completion before the next one  *)
(* starts.                                                                 *)
(* Spec: the dispatcher runs handlers as concurrent tasks; "done", "home"  *)
(* and "menu ready" may start while other handlers are suspended at an     *)
(* await (no edit targets are chosen in this specification).               *)
(* SpecBulk: the bulk flow from mode selection to export (and "home"),    *)
(* each handler running to completion.                                     *)
(* SpecSplit: "menu uploaded" on every event buffer of up to MaxSplit      *)
(* events.                                                                 *)
(* SpecDish: extraction, edits and confirmation of one dish, on every      *)
(* sequence of up to MaxLines sample messages, in the manual and in the    *)
(* bulk flow.                                                              *)
(* SpecComp: extraction alone, on messages chosen for the composition      *)
(* rules.                                                                  *)
(* SpecReview: "menu uploaded" on every event buffer of up to MaxSplit      *)
(* events, followed by "done" and nothing else.                            *)
(* SpecTwo: two users, the handlers of one overlapping with those of the   *)
(* other at the awaits; sheets.export_rows is entered and left in two      *)
(* steps.                                                                  *)

NextSeq ==
  \/ \E u \in ActiveUsers : start_cmd(u, TRUE)
  \/ \E u \in ActiveUsers : go_home(u, TRUE)
  \/ \E u \in ActiveUsers : help_message(u, TRUE)
  \/ \E u \in ActiveUsers : manual_start(u, TRUE)
  \/ \E u \in ActiveUsers : bulk_start(u, TRUE)
  \/ \E u \in ActiveUsers, text \in SheetUrls : set_sheet(u, TRUE, text)
  \/ \E u \in ActiveUsers : manual_new_dish(u, TRUE)
  \/ \E u \in ActiveUsers : cancel_dish(u, TRUE)
  \/ \E u \in ActiveUsers, p \in PhotoInputs, c \in Captions : collect_photo(u, TRUE, p, c)
  \/ \E u \in ActiveUsers, d \in DocumentInputs, b \in BOOLEAN, c \in Captions : collect_document(u, TRUE, d, b, c)
  \/ \E u \in ActiveUsers : ready_button(u, TRUE)
  \/ \E u \in ActiveUsers, f \in {"name", "prices"} : edit_field(u, TRUE, f)
  \/ \E u \in ActiveUsers, text \in Texts : collect_text(u, TRUE, text)
  \/ \E u \in ActiveUsers : menu_ready(u, TRUE)
  \/ \E u \in ActiveUsers : bulk_done(u, TRUE)
  \/ \E k \in TaskIds : get_file_returns(k)
  \/ \E k \in TaskIds : get_file_raises(k)
  \/ \E k \in TaskIds, ok \in BOOLEAN : menu_ready_export(k, ok)
  \/ \E k \in TaskIds : bulk_done_show(k)

SpecSeq == Init /\ [][NextSeq]_vars

Next ==
  \/ \E u \in ActiveUsers : start_cmd(u, TRUE)
  \/ \E u \in ActiveUsers : go_home(u, FALSE)
  \/ \E u \in ActiveUsers : help_message(u, TRUE)
  \/ \E u \in ActiveUsers : manual_start(u, TRUE)
  \/ \E u \in ActiveUsers : bulk_start(u, TRUE)
  \/ \E u \in ActiveUsers, text \in SheetUrls : set_sheet(u, TRUE, text)
  \/ \E u \in ActiveUsers : manual_new_dish(u, TRUE)
  \/ \E u \in ActiveUsers : cancel_dish(u, TRUE)
  \/ \E u \in ActiveUsers, p \in PhotoInputs, c \in Captions : collect_photo(u, TRUE, p, c)
  \/ \E u \in ActiveUsers, d \in DocumentInputs, b \in BOOLEAN, c \in Captions : collect_document(u, TRUE, d, b, c)
  \/ \E u \in ActiveUsers : ready_button(u, FALSE)
  \/ \E u \in ActiveUsers, text \in Texts : collect_text(u, TRUE, text)
  \/ \E u \in ActiveUsers : menu_ready(u, FALSE)
  \/ \E u \in ActiveUsers : bulk_done(u, TRUE)
  \/ \E k \in TaskIds : get_file_returns(k)
  \/ \E k \in TaskIds : get_file_raises(k)
  \/ \E k \in TaskIds, ok \in BOOLEAN : menu_ready_export(k, ok)
  \/ \E k \in TaskIds : bulk_done_show(k)

Spec == Init /\ [][Next]_vars

NextBulk ==
  \/ \E u \in ActiveUsers : go_home(u, TRUE)
  \/ \E u \in ActiveUsers : bulk_start(u, TRUE)
  \/ \E u \in ActiveUsers, text \in SheetUrls : set_sheet(u, TRUE, text)
  \/ \E u \in ActiveUsers : cancel_dish(u, TRUE)
  \/ \E u \in ActiveUsers, p \in PhotoInputs, c \in Captions : collect_photo(u, TRUE, p, c)
  \/ \E u \in ActiveUsers, d \in DocumentInputs, b \in BOOLEAN, c \in Captions : collect_document(u, TRUE, d, b, c)
  \/ \E u \in ActiveUsers : ready_button(u, TRUE)
  \/ \E u \in ActiveUsers, f \in {"name", "prices"} : edit_field(u, TRUE, f)
  \/ \E u \in ActiveUsers, text \in Texts : collect_text(u, TRUE, text)
  \/ \E u \in ActiveUsers : menu_ready(u, TRUE)
  \/ \E u \in ActiveUsers : bulk_done(u, TRUE)
  \/ \E k \in TaskIds : get_file_returns(k)
  \/ \E k \in TaskIds : get_file_raises(k)
  \/ \E k \in TaskIds, ok \in BOOLEAN : menu_ready_export(k, ok)
  \/ \E k \in TaskIds : bulk_done_show(k)

SpecBulk == Init /\ [][NextBulk]_vars

\* the buffer entries bulk_add_photo and bulk_add_text write
SplitItems ==
  {[type |-> "photo", photo |-> p, photo_message_id |-> p.message_id] :
     p \in PhotoInputs \cup DocumentInputs}
  \cup {[type |-> "text", value |-> t] : t \in {"Plov", "400 g - 60000"}}

SplitBuffers == UNION {[1..n -> SplitItems] : n \in 0..MaxSplit}

\* a session collecting a bulk menu (after bulk_start and set_sheet), with any buffer
InitSplit ==
  /\ \E b \in SplitBuffers, url \in SheetUrls :
       sessions = (1 :> [_new_session EXCEPT
                           !.mode = "bulk_collect",
                           !.menu.sheet_url = url,
                           !.bulk.active = TRUE,
                           !.bulk.buffer = b])
  /\ heap = [id \in {} |-> EmptyDish]
  /\ tasks = [k \in TaskIds |-> IdleTask]
  /\ out = Say(0, "none")
  /\ edits = 0

NextSplit ==
  \/ \E u \in ActiveUsers : bulk_done(u, TRUE)
  \/ \E k \in TaskIds : bulk_done_show(k)

SpecSplit == InitSplit /\ [][NextSplit]_vars

NextReview ==
  \/ \E u \in ActiveUsers : bulk_done(u, TRUE)
  \/ \E k \in TaskIds : bulk_done_show(k)
  \/ \E u \in ActiveUsers : ready_button(u, TRUE)
  \/ \E k \in TaskIds : get_file_returns(k)

SpecReview == InitSplit /\ [][NextReview]_vars

\* the messages describing a dish, as add_text / bulk_add_text store them
DishMessages ==
  {"Plov", "400 g - 60000", "1 kg - 135000", "weight: 350 g"}

DishTexts == UNION {[1..n -> DishMessages] : n \in 0..MaxLines}

\* the texts sent while an edit field is pending
EditTexts ==
  {"-", "250 ml", "1 kg - 135000\nPlov\nx - y\n400 g - 60000",
   "Coca-Cola 0.5 l - 12000\n400 g - 60000"}

\* a dish draft with collected texts (after manual_new_dish and collect_text),
\* or a bulk buffer holding one photo followed by texts
InitDish ==
  /\ \E ts \in DishTexts, url \in SheetUrls, p \in PhotoInputs :
       \/ sessions = (1 :> [_new_session EXCEPT
                              !.mode = "dish_collect",
                              !.menu.sheet_url = url,
                              !.texts = ts])
       \/ sessions = (1 :> [_new_session EXCEPT
                              !.mode = "bulk_collect",
                              !.menu.sheet_url = url,
                              !.bulk.active = TRUE,
                              !.bulk.buffer =
                                 <<[type |-> "photo", photo |-> p,
                                    photo_message_id |-> p.message_id]>>
                                 \o [i \in DOMAIN ts |->
                                       [type |-> "text", value |-> ts[i]]]])
  /\ heap = [id \in {} |-> EmptyDish]
  /\ tasks = [k \in TaskIds |-> IdleTask]
  /\ out = Say(0, "none")
  /\ edits = 0

NextDish ==
  \/ \E u \in ActiveUsers : ready_button(u, TRUE)
  \/ \E u \in ActiveUsers : bulk_done(u, TRUE)
  \/ \E k \in TaskIds : bulk_done_show(k)
  \/ \E k \in TaskIds : get_file_returns(k)
  \/ \E u \in ActiveUsers, f \in EditFields : edit_field(u, TRUE, f)
  \/ \E u \in ActiveUsers, text \in EditTexts : collect_text(u, TRUE, text)

SpecDish == InitDish /\ [][NextDish]_vars

\* as InitDish, with messages that exercise the composition rules: a
\* composition header with its list, a "key value" composition, a
\* description, plain lines, a labeled name
InitComp ==
  /\ \E n \in 0..MaxLines, url \in SheetUrls, p \in PhotoInputs :
       \E ts \in [1..n -> {"tarkib: rice, carrot", "tarkib rice", "desc: tasty",
                            "rice", "name: Osh"}] :
         \/ sessions = (1 :> [_new_session EXCEPT
                                !.mode = "dish_collect",
                                !.menu.sheet_url = url,
                                !.texts = ts])
         \/ sessions = (1 :> [_new_session EXCEPT
                                !.mode = "bulk_collect",
                                !.menu.sheet_url = url,
                                !.bulk.active = TRUE,
                                !.bulk.buffer =
                                   <<[type |-> "photo", photo |-> p,
                                      photo_message_id |-> p.message_id]>>
                                   \o [i \in DOMAIN ts |->
                                         [type |-> "text", value |-> ts[i]]]])
  /\ heap = [id \in {} |-> EmptyDish]
  /\ tasks = [k \in TaskIds |-> IdleTask]
  /\ out = Say(0, "none")
  /\ edits = 0

NextComp ==
  \/ \E u \in ActiveUsers : ready_button(u, TRUE)
  \/ \E u \in ActiveUsers : bulk_done(u, TRUE)
  \/ \E k \in TaskIds : bulk_done_show(k)
  \/ \E k \in TaskIds : get_file_returns(k)

SpecComp == InitComp /\ [][NextComp]_vars

\* user u sends the next event once the handler of the last one is through,
\* whatever the handlers of the other user are doing
may_start(u) == loop_free /\ \A k \in TaskIds : tasks[k].user # u

\* the handlers user u can start; a menu is one photo
user_step(u) ==
  \/ may_start(u) /\ go_home(u, FALSE)
  \/ may_start(u) /\ manual_start(u, FALSE)
  \/ may_start(u) /\ cancel_dish(u, FALSE)
  \/ may_start(u) /\ bulk_start(u, FALSE)
  \/ may_start(u) /\ \E text \in SheetUrls : set_sheet(u, FALSE, text)
  \/ may_start(u) /\ (u \in DOMAIN sessions => sessions[u].bulk.buffer = << >>)
       /\ \E p \in PhotoInputs : collect_photo(u, FALSE, p, None)
  \/ may_start(u) /\ bulk_done(u, FALSE)
  \/ may_start(u) /\ ready_button(u, FALSE)
  \/ may_start(u) /\ menu_ready(u, FALSE)

\* the suspended handler k going on
task_step(k) ==
  \/ loop_free /\ bulk_done_show(k)
  \/ loop_free /\ get_file_returns(k)
  \/ loop_free /\ get_file_raises(k)
  \/ loop_free /\ export_call(k)
  \/ (loop_free \/ tasks[k].kind = "export_call")
       /\ \E ok \in BOOLEAN : menu_ready_export(k, ok)

NextTwo ==
  \/ \E u \in Users : user_step(u)
  \/ \E k \in TaskIds : task_step(k)

SpecTwo == Init /\ [][NextTwo]_vars

-----------------------------------------------------------------------------
(* Properties of the bulk flow *)

\* the photo events of a buffer, by index
PhotoIndices(buffer) == {i \in DOMAIN buffer : buffer[i].type = "photo"}

\* the index of the j-th photo event
NthPhoto(buffer, j) ==
  CHOOSE i \in PhotoIndices(buffer) :
    Cardinality({k \in PhotoIndices(buffer) : k <= i}) = j

\* the index just after the events that belong to the j-th photo
SegmentEnd(buffer, j) ==
  IF j < Cardinality(PhotoIndices(buffer)) THEN NthPhoto(buffer, j + 1)
  ELSE Len(buffer) + 1

\* positions is the segmentation of buffer: one position per photo, in photo
\* order, each with the texts between its photo and the next one
IsSegmentation(buffer, positions) ==
  /\ Len(positions) = Cardinality(PhotoIndices(buffer))
  /\ \A j \in DOMAIN positions :
       LET lo == NthPhoto(buffer, j)
           hi == SegmentEnd(buffer, j)
       IN /\ positions[j].photo = buffer[lo].photo
          /\ positions[j].photo_message_id = buffer[lo].photo_message_id
          /\ Len(positions[j].texts) = hi - lo - 1
          /\ \A k \in 1..(hi - lo - 1) :
               /\ buffer[lo + k].type = "text"
               /\ positions[j].texts[k] = buffer[lo + k].value

\* the photo and text content of the positions (their records left out)
PhotoText(positions) ==
  [i \in DOMAIN positions |->
     [photo |-> positions[i].photo,
      photo_message_id |-> positions[i].photo_message_id,
      texts |-> positions[i].texts]]

\* a photo or text event of user u is handled in this step
PhotoOrTextEvent(u) ==
  \/ \E p \in PhotoInputs, c \in Captions : collect_photo(u, TRUE, p, c)
  \/ \E d \in DocumentInputs, b \in BOOLEAN, c \in Captions :
       collect_document(u, TRUE, d, b, c)
  \/ \E text \in Texts : collect_text(u, TRUE, text)

\* C1: once "menu uploaded" has segmented a buffer, the positions are one per
\* photo event in photo order, each with exactly the texts between its photo
\* and the next photo in arrival order; texts before the first photo belong to
\* no position, and a buffer without photos gives no position.
C1_Segmentation ==
  \A u \in DOMAIN sessions :
    out.msg \in {"no_positions", "menu_accepted", "review_position"} =>
      IsSegmentation(sessions[u].bulk.buffer, sessions[u].bulk.positions)

C1_Witness ==
  \E u \in DOMAIN sessions :
    LET b == sessions[u].bulk.buffer
    IN /\ out.msg = "menu_accepted"
       /\ Len(b) = 4
       /\ b[1].type = "text" /\ b[2].type = "photo"
       /\ b[3].type = "text" /\ b[4].type = "photo"
       /\ Len(sessions[u].bulk.positions) = 2
       /\ sessions[u].bulk.positions[1].texts = << b[3].value >>

\* C2: a "done" in bulk_review at cursor i whose photo URL is resolved appends
\* exactly the rows built from position i's record to accumulated rows and
\* moves the cursor to i+1; if position i+1 exists the mode stays bulk_review
\* and its record is the extraction of its texts, else the mode is manual_menu.
C2_DoneConfirmsCurrent ==
  [][\A k \in TaskIds :
       (tasks[k].kind = "confirm" /\ tasks'[k].kind = "idle"
          /\ out'.msg \in {"review_position", "positions_done"})
       => LET u == tasks[k].user
              b == sessions[u].bulk
              i == b.current_index
              pos == b.positions[i + 1]
              b2 == sessions'[u].bulk
          IN /\ sessions[u].mode = "bulk_review"
             /\ i < Len(b.positions)
             /\ sessions'[u].menu.rows =
                  sessions[u].menu.rows
                    \o build_sheet_items(deref(heap, pos.parsed),
                                         photo_url_of(pos.photo.file_id))
             /\ b2.current_index = i + 1
             /\ PhotoText(b2.positions) = PhotoText(b.positions)
             /\ IF i + 1 < Len(b.positions)
                THEN /\ sessions'[u].mode = "bulk_review"
                     /\ b2.positions[i + 2].parsed # 0
                     /\ deref(heap', b2.positions[i + 2].parsed)
                          = parse_bulk_position(b.positions[i + 2].texts)
                ELSE sessions'[u].mode = "manual_menu"]_vars

C2_Witness ==
  \E u \in DOMAIN sessions :
    /\ NoTask
    /\ out.msg = "review_position"
    /\ sessions[u].mode = "bulk_review"
    /\ sessions[u].bulk.current_index = 1
    /\ Len(sessions[u].menu.rows) >= 1
    /\ edits = 1

\* C3: when two "done" events of one user overlap at the photo-URL await,
\* every completed "done" (started on a position whose record was shown)
\* appends the rows of the position under the cursor and advances the cursor
\* by one, and appends nothing when every position has been confirmed: no
\* position's rows twice, no position skipped.
C3_DoneSerialized ==
  [][\A k \in TaskIds :
       (/\ tasks[k].kind = "confirm" /\ tasks'[k].kind = "idle"
        /\ tasks[k].parsed # 0
        /\ out'.msg \in {"review_position", "positions_done"}
        /\ tasks[k].user \in DOMAIN sessions
        /\ sessions[tasks[k].user].bulk.positions # << >>)
       => LET u == tasks[k].user
              b == sessions[u].bulk
              i == b.current_index
          IN IF i < Len(b.positions)
             THEN /\ sessions'[u].menu.rows =
                       sessions[u].menu.rows
                         \o build_sheet_items(
                              deref(heap, b.positions[i + 1].parsed),
                              photo_url_of(b.positions[i + 1].photo.file_id))
                  /\ sessions'[u].bulk.current_index = i + 1
             ELSE sessions'[u].menu.rows = sessions[u].menu.rows]_vars

\* C4: "menu uploaded" in bulk_collect with at least one position ends in
\* bulk_review with cursor 0, the positions being the segmentation of the
\* buffer and position 0's record the extraction of its texts; a photo or
\* text event handled in bulk_review changes neither the buffer nor the
\* photo and texts of any position.
C4_MenuUploadedStartsReview ==
  [][\A u \in ActiveUsers :
       /\ (\E k \in TaskIds : /\ tasks[k].kind = "bulk_done"
                              /\ tasks[k].user = u
                              /\ tasks'[k].kind = "idle")
          => LET b2 == sessions'[u].bulk
             IN /\ sessions'[u].mode = "bulk_review"
                /\ b2.current_index = 0
                /\ b2.buffer = sessions[u].bulk.buffer
                /\ b2.positions # << >>
                /\ IsSegmentation(b2.buffer, b2.positions)
                /\ b2.positions[1].parsed # 0
                /\ sessions'[u].parsed = b2.positions[1].parsed
                /\ deref(heap', b2.positions[1].parsed)
                     = parse_bulk_position(b2.positions[1].texts)
       /\ (get_mode(sessions, u) = "bulk_review" /\ PhotoOrTextEvent(u))
          => /\ sessions'[u].mode = "bulk_review"
             /\ sessions'[u].bulk.buffer = sessions[u].bulk.buffer
             /\ PhotoText(sessions'[u].bulk.positions)
                  = PhotoText(sessions[u].bulk.positions)]_vars

C4_Witness ==
  \E u \in DOMAIN sessions :
    /\ NoTask
    /\ out.msg = "nothing"
    /\ sessions[u].mode = "bulk_review"
    /\ sessions[u].bulk.current_index = 0
    /\ Len(sessions[u].bulk.positions) = 2
    /\ sessions[u].bulk.positions[1].parsed # 0

\* C5: "menu uploaded" in bulk_collect on a buffer without positions leaves
\* the mode bulk_collect and the buffer, the accumulated rows and the sheet
\* link as they were, so that events can still be appended.
C5_NoPositionsKeepsCollecting ==
  [][\A u \in ActiveUsers :
       (get_mode(sessions, u) = "bulk_collect" /\ bulk_done(u, TRUE)
          /\ out'.msg = "no_positions")
       => /\ sessions'[u].mode = "bulk_collect"
          /\ sessions'[u].bulk.buffer = sessions[u].bulk.buffer
          /\ sessions'[u].bulk.active
          /\ sessions'[u].menu = sessions[u].menu]_vars

C5_Witness ==
  \E u \in DOMAIN sessions :
    /\ out.msg = "no_positions"
    /\ sessions[u].mode = "bulk_collect"
    /\ sessions[u].bulk.buffer # << >>

\* C6: when photo-URL resolution fails during "done", the session (buffer,
\* positions and their records, cursor, accumulated rows, mode) is as before,
\* so the next "done" confirms the same position.
C6_GetFileFailureKeepsSession ==
  [][\A k \in TaskIds :
       (tasks[k].kind = "confirm" /\ tasks'[k].kind = "idle"
          /\ out'.msg = "get_file_failed")
       => /\ sessions' = sessions
          /\ heap' = heap
          /\ bulk_get_current(sessions', tasks[k].user)
               = bulk_get_current(sessions, tasks[k].user)]_vars

C6_Witness ==
  \E u \in DOMAIN sessions :
    /\ out.msg = "get_file_failed"
    /\ sessions[u].mode = "bulk_review"
    /\ sessions[u].bulk.current_index = 1
    /\ Len(sessions[u].menu.rows) >= 1

\* C7: when the spreadsheet call of an export fails, the session is not
\* reset: mode, sheet link, accumulated rows, buffer, positions and cursor
\* are as before.
C7_ExportFailureKeepsSession ==
  [][\A k \in TaskIds :
       (tasks[k].kind = "menu_ready" /\ tasks'[k].kind = "idle"
          /\ out'.export.result = "raised")
       => /\ sessions' = sessions
          /\ heap' = heap
          /\ out'.export.items = sessions[tasks[k].user].menu.rows]_vars

C7_Witness ==
  \E u \in DOMAIN sessions :
    /\ out.msg = "export_failed"
    /\ out.export.result = "raised"
    /\ sessions[u].mode = "manual_menu"
    /\ Len(sessions[u].menu.rows) = 2

\* C8: a successful export from manual_menu hands the session's sheet link
\* and exactly its accumulated rows, in order, to the spreadsheet, and leaves
\* the user with a fresh session.
C8_ExportSendsRowsAndResets ==
  [][\A k \in TaskIds :
       (/\ tasks[k].kind = "menu_ready" /\ tasks'[k].kind = "idle"
        /\ get_mode(sessions, tasks[k].user) = "manual_menu"
        /\ out'.export.result \in {"appended", "nothing_to_send"})
       => LET u == tasks[k].user
              menu == sessions[u].menu
          IN /\ truthy(menu.sheet_url)
             /\ out'.export.sheet_url = menu.sheet_url
             /\ out'.export.items = menu.rows
             /\ Len(out'.export.sent) = Len(menu.rows)
             /\ \A i \in DOMAIN menu.rows :
                  out'.export.sent[i] = build_fixed_row(menu.rows[i])
             /\ sessions'[u] = _new_session]_vars

C8_Witness ==
  \E u \in DOMAIN sessions :
    /\ out.msg = "exported"
    /\ out.export.result = "appended"
    /\ Len(out.export.sent) = 2
    /\ sessions[u] = _new_session

\* C9: "menu ready" without a sheet link, or without a session, starts no
\* export and leaves the session registry as it was.
C9_NoSheetNoExport ==
  [][\A u \in ActiveUsers :
       (/\ u \notin DOMAIN sessions \/ ~truthy(sessions[u].menu.sheet_url)
        /\ menu_ready(u, TRUE))
       => /\ sessions' = sessions
          /\ heap' = heap
          /\ tasks' = tasks
          /\ out'.export = NoExport
          /\ out'.msg = "no_sheet"]_vars

C9_Witness ==
  \E u \in DOMAIN sessions :
    /\ out.msg = "no_sheet"
    /\ sessions[u].mode = "bulk_wait_sheet"
    /\ sessions[u].bulk.active

\* C10: "menu ready" in a mode other than manual_menu exports nothing and
\* does not reset the session.
C10_ExportOnlyFromManualMenu ==
  [][\A k \in TaskIds :
       (/\ tasks[k].kind = "menu_ready" /\ tasks'[k].kind = "idle"
        /\ get_mode(sessions, tasks[k].user) # "manual_menu")
       => /\ out'.export.result = "none"
          /\ sessions' = sessions]_vars

-----------------------------------------------------------------------------
(* Properties of cancel and of the edit mechanism *)

\* the records of the positions of session s, in order
PositionRecords(H, s) ==
  [i \in DOMAIN s.bulk.positions |-> deref(H, s.bulk.positions[i].parsed)]

\* C11: "cancel" in dish_collect empties the dish draft (texts, photos,
\* stored record, pending edit field) and leaves the session in manual_menu.
C11_CancelDishToManualMenu ==
  [][\A u \in ActiveUsers :
       (get_mode(sessions, u) = "dish_collect" /\ cancel_dish(u, TRUE))
       => /\ sessions'[u].texts = << >>
          /\ sessions'[u].photos = << >>
          /\ sessions'[u].parsed = 0
          /\ sessions'[u].edit_mode = None
          /\ sessions'[u].mode = "manual_menu"]_vars

\* C12: "cancel" in bulk_review clears the pending edit field and keeps the
\* mode, the positions with their photos, texts and records, the cursor and
\* the accumulated rows.
C12_CancelKeepsReview ==
  [][\A u \in ActiveUsers :
       (get_mode(sessions, u) = "bulk_review" /\ cancel_dish(u, TRUE))
       => /\ sessions'[u].mode = "bulk_review"
          /\ sessions'[u].edit_mode = None
          /\ sessions'[u].bulk = sessions[u].bulk
          /\ PositionRecords(heap', sessions'[u]) = PositionRecords(heap, sessions[u])
          /\ sessions'[u].bulk.positions[sessions[u].bulk.current_index + 1].parsed # 0
          /\ sessions'[u].menu = sessions[u].menu]_vars

C12_Witness ==
  \E u \in DOMAIN sessions :
    /\ out.msg = "edits_cancelled"
    /\ edits = 1
    /\ sessions[u].mode = "bulk_review"
    /\ sessions[u].edit_mode = None
    /\ sessions[u].bulk.current_index = 1
    /\ sessions[u].bulk.positions[2].parsed # 0

\* C13: in bulk_review, a text sent while an edit field is pending edits the
\* record of the position under the cursor, clears the pending field and
\* keeps the mode; the records of the other positions stay as they were.
C13_ReviewEditReachesCurrent ==
  [][\A u \in ActiveUsers, text \in Texts :
       (/\ get_mode(sessions, u) = "bulk_review"
        /\ sessions[u].edit_mode # None
        /\ collect_text(u, TRUE, text))
       => LET b == sessions[u].bulk
              i == b.current_index + 1
              before == PositionRecords(heap, sessions[u])
              after == PositionRecords(heap', sessions'[u])
          IN /\ sessions'[u].mode = "bulk_review"
             /\ sessions'[u].edit_mode = None
             /\ sessions'[u].bulk.current_index = b.current_index
             /\ after[i] = edited(before[i], sessions[u].edit_mode, strip(text))
             /\ \A j \in DOMAIN before : j # i => after[j] = before[j]]_vars

\* the record the session's draft reference denotes
StoredRecord(H, s) == deref(H, s.parsed)

\* C14: in mode edit, choosing an edit target records the pending field and
\* changes neither the mode nor the record; a text received while a field is
\* pending applies the edit to the stored record, clears the pending field
\* and leaves the mode edit; a text received with no pending field changes
\* neither the session nor the record.
C14_EditMechanism ==
  [][\A u \in ActiveUsers :
       (u \in DOMAIN sessions /\ sessions[u].mode = "edit") =>
         /\ \A f \in EditFields :
              edit_field(u, TRUE, f) =>
                /\ sessions'[u].edit_mode = f
                /\ sessions'[u].mode = "edit"
                /\ sessions'[u].parsed = sessions[u].parsed
                /\ heap' = heap
         /\ \A text \in EditTexts :
              collect_text(u, TRUE, text) =>
                IF sessions[u].edit_mode # None
                THEN /\ sessions'[u].parsed = sessions[u].parsed
                     /\ StoredRecord(heap', sessions'[u]) =
                          edited(StoredRecord(heap, sessions[u]),
                                 sessions[u].edit_mode, strip(text))
                     /\ sessions'[u].edit_mode = None
                     /\ sessions'[u].mode = "edit"
                ELSE sessions' = sessions /\ heap' = heap]_vars

\* a weight edit has been applied in mode edit and no field is pending
C14_Witness ==
  /\ out.msg = "updated"
  /\ edits = 1
  /\ 1 \in DOMAIN sessions
  /\ sessions[1].mode = "edit"
  /\ sessions[1].edit_mode = None
  /\ StoredRecord(heap, sessions[1]).weight = "250 ml"
  /\ StoredRecord(heap, sessions[1]).name = "Plov"

\* C15: a stored dish record whose variant list is non-empty has price equal
\* to the minimum variant price and no weight, after extraction and after
\* any sequence of edits.
C15_VariantsFixPriceAndWeight ==
  \A id \in DOMAIN heap :
    heap[id].prices # << >> =>
      /\ heap[id].price = min_price(heap[id].prices)
      /\ heap[id].weight = None

\* the keys of a dish record, and the absent value of a key
RecordKeys == {"name", "composition", "weight", "price", "prices", "ikpu", "meta"}
Absent(key) == IF key = "composition" THEN NoParts ELSE None

\* a text of user u is applied as an edit: a field is pending, a record is
\* stored and the mode is not a collecting one
EditApplies(u) ==
  /\ u \in DOMAIN sessions
  /\ sessions[u].mode \notin {"bulk_collect", "dish_collect"}
  /\ sessions[u].edit_mode # None
  /\ sessions[u].parsed # 0

\* C16: the price edit with the clear token "-" sets price to absent and the
\* variant list to empty and leaves weight, name, composition, product code
\* (and provenance) unchanged; the clear token on any other field sets that
\* field to absent and changes no other key of the record.
C16_ClearToken ==
  [][\A u \in ActiveUsers :
       (EditApplies(u) /\ collect_text(u, TRUE, "-")) =>
         LET before == StoredRecord(heap, sessions[u])
             after == StoredRecord(heap', sessions'[u])
             field == sessions[u].edit_mode
         IN IF field = "prices"
            THEN /\ after.prices = << >>
                 /\ after.price = NoPrice
                 /\ \A key \in RecordKeys \ {"prices", "price"} :
                      after[key] = before[key]
            ELSE /\ after[field] = Absent(field)
                 /\ \A key \in RecordKeys \ {field} :
                      after[key] = before[key]]_vars

\* the prices of a bulk record extracted from variants were cleared: the
\* weight found at extraction is still there
C16_Witness ==
  /\ out.msg = "updated"
  /\ 1 \in DOMAIN sessions
  /\ sessions[1].mode = "bulk_review"
  /\ StoredRecord(heap, sessions[1]).prices = << >>
  /\ StoredRecord(heap, sessions[1]).price = NoPrice
  /\ StoredRecord(heap, sessions[1]).weight = "400 g"
  /\ StoredRecord(heap, sessions[1]).meta.price_source = "multi_price_pairs"

\* the lines that read as "label - number", in order: the label is the whole
\* text before the separator, the price the number after it
RECURSIVE label_number_lines(_)
label_number_lines(lines) ==
  IF lines = << >> THEN << >>
  ELSE LET m == _PAIR_RE(Head(lines))
       IN IF m.ok
          THEN <<[weight |-> strip(m.key), price |-> digits(m.value).val]>>
               \o label_number_lines(Tail(lines))
          ELSE label_number_lines(Tail(lines))

\* the stored form of a text in a field (the composition is kept as the list
\* of its comma-separated parts)
StoredText(field, text) ==
  IF field = "composition" THEN comma_parts(text) ELSE text

\* C17: a price edit with a text other than the clear token replaces the
\* variant list by exactly the "label - number" lines of the text, in order,
\* sets price to the minimum of the new variants (absent if there is none)
\* and weight to absent, and changes nothing else; an edit of any other
\* field stores the trimmed text and changes no other key.
C17_PriceEditReparsesLines ==
  [][\A u \in ActiveUsers, text \in EditTexts \ {"-"} :
       (EditApplies(u) /\ collect_text(u, TRUE, text)) =>
         LET before == StoredRecord(heap, sessions[u])
             after == StoredRecord(heap', sessions'[u])
             field == sessions[u].edit_mode
             variants == label_number_lines(splitlines(strip(text)))
         IN IF field = "prices"
            THEN /\ after.prices = variants
                 /\ after.price = IF variants = << >> THEN NoPrice
                                  ELSE min_price(variants)
                 /\ after.weight = None
                 /\ \A key \in RecordKeys \ {"prices", "price", "weight"} :
                      after[key] = before[key]
            ELSE /\ after[field] = StoredText(field, strip(text))
                 /\ \A key \in RecordKeys \ {field} :
                      after[key] = before[key]]_vars

\* the provenance key of an edit field (the name has none)
ProvenanceKey(field) ==
  CASE field = "prices" -> "price_source"
    [] field = "weight" -> "weight_source"
    [] field = "composition" -> "composition_source"
    [] field = "ikpu" -> "ikpu_source"
    [] OTHER -> None

\* C18: an applied edit of a field updates the field's provenance: if the
\* provenance named an extraction rule before the edit, it does not name
\* that rule after the edit.
C18_EditUpdatesProvenance ==
  [][\A u \in ActiveUsers, text \in EditTexts :
       (EditApplies(u) /\ collect_text(u, TRUE, text)) =>
         LET before == StoredRecord(heap, sessions[u])
             after == StoredRecord(heap', sessions'[u])
             key == ProvenanceKey(sessions[u].edit_mode)
         IN (key # None /\ before.meta[key] # None) =>
              after.meta[key] # before.meta[key]]_vars

\* the variants of the texts win: price is their minimum, there is no
\* weight, and the price provenance is the variant list
VariantsWin(rec, texts) ==
  LET variants == multi_prices(normalize_texts(texts))
  IN variants # << >> =>
       /\ rec.price = min_price(variants)
       /\ rec.weight = None
       /\ rec.meta.price_source = "multi_price_pairs"

\* C19: the record just extracted from texts containing a variant-price
\* line (shown as the dish card in the manual flow, as the position under
\* review in the bulk flow) has price equal to the minimum variant price, no
\* weight and price provenance variant-list, whatever else the texts hold.
C19_VariantsTakePrecedence ==
  \A u \in DOMAIN sessions :
    LET s == sessions[u]
        cur == bulk_get_current(sessions, u)
    IN /\ out.msg = "dish_card" => VariantsWin(StoredRecord(heap, s), s.texts)
       /\ (out.msg = "review_position" /\ cur # 0) =>
            VariantsWin(deref(heap, s.bulk.positions[cur].parsed),
                        s.bulk.positions[cur].texts)

\* a row shares the record's name, composition, product code and the url
SharesRecord(row, rec, url) ==
  /\ row.Poziciya = rec.name
  /\ row.Opisanie = rec.composition
  /\ row.KodIKPU = rec.ikpu
  /\ row.Kartinka = url

\* C20: the rows built from a record at its confirmation: for a record with
\* N >= 1 variants exactly N rows in variant order, each with the record's
\* name, composition, product code and the url, row k carrying variant k's
\* label as weight and variant k's price; for a record with no variants
\* exactly one row carrying the record's scalar weight and price.
C20_RowsPerVariant ==
  [][\A k \in TaskIds :
       get_file_returns(k) =>
         LET u == tasks[k].user
             rec == deref(heap, tasks[k].parsed)
             url == photo_url_of(tasks[k].file_id)
             old == Len(sessions[u].menu.rows)
             rows == sessions'[u].menu.rows
             N == Len(rec.prices)
         IN IF N >= 1
            THEN /\ Len(rows) = old + N
                 /\ \A i \in 1..N :
                      /\ SharesRecord(rows[old + i], rec, url)
                      /\ rows[old + i].Ves = rec.prices[i].weight
                      /\ rows[old + i].Cena = rec.prices[i].price
            ELSE /\ Len(rows) = old + 1
                 /\ SharesRecord(rows[old + 1], rec, url)
                 /\ rows[old + 1].Ves = rec.weight
                 /\ rows[old + 1].Cena = rec.price]_vars

\* a position with two variants was confirmed: two rows, in variant order,
\* with the same photo url
C20_Witness ==
  /\ out.msg = "positions_done"
  /\ 1 \in DOMAIN sessions
  /\ Len(sessions[1].menu.rows) = 2
  /\ sessions[1].menu.rows[1].Ves = "400 g"
  /\ sessions[1].menu.rows[1].Cena = 60000
  /\ sessions[1].menu.rows[2].Ves = "1 kg"
  /\ sessions[1].menu.rows[2].Cena = 135000
  /\ sessions[1].menu.rows[1].Kartinka = photo_url_of("f1")
  /\ sessions[1].menu.rows[2].Kartinka = photo_url_of("f1")

-----------------------------------------------------------------------------
(* Properties of the export rows, of the composition rules and of the      *)
(* session registry                                                        *)

\* the cells of a row as text, so that a price and a weight can be compared
Cells(row) == [i \in DOMAIN row |-> ToString(row[i])]

\* C21, as claimed: every row handed to the spreadsheet has the columns
\* position name, composition, weight, price, product code, photo reference,
\* in this order.
C21_ColumnOrderAsClaimed ==
  \A i \in DOMAIN out.export.sent :
    Cells(out.export.sent[i]) =
      Cells(<< out.export.items[i].Poziciya, out.export.items[i].Opisanie,
               out.export.items[i].Ves, out.export.items[i].Cena,
               out.export.items[i].KodIKPU, out.export.items[i].Kartinka >>)

\* C21, amended: every row handed to the spreadsheet has the six columns
\* position name, composition, price, weight, product code, photo reference,
\* in this order (the price comes before the weight).
C21_ColumnOrder ==
  \A i \in DOMAIN out.export.sent :
    Cells(out.export.sent[i]) =
      Cells(<< out.export.items[i].Poziciya, out.export.items[i].Opisanie,
               out.export.items[i].Cena, out.export.items[i].Ves,
               out.export.items[i].KodIKPU, out.export.items[i].Kartinka >>)

\* a row with a price and a weight was handed to the spreadsheet
C21_Witness ==
  /\ out.export.result = "appended"
  /\ Len(out.export.sent) >= 1
  /\ out.export.sent[1][3] = 60000
  /\ out.export.sent[1][4] = "400 g"

\* the provenance tags of the five composition rules, in the order of the rules
CompositionTags ==
  <<"composition_block", "explicit_composition_attr",
    "description_used_as_composition", "fallback_from_text",
    "legacy_longest_line_fallback">>

\* what a labeled field yields as a composition
LabeledYield(labeled, key) ==
  IF key \in DOMAIN labeled /\ truthy(labeled[key])
  THEN comma_parts(strip(labeled[key])) ELSE NoParts

\* what the longest remaining line yields
LongestYield(line) == IF line # None THEN comma_parts(line) ELSE NoParts

\* what each of the five rules yields on the lines, for the active pool and
\* the resolved name
RuleYields(block, labeled, pool, name) ==
  << IF block # << >> THEN extract_composition_from_lines(block) ELSE NoParts,
     LabeledYield(labeled, "composition"),
     LabeledYield(labeled, "description"),
     extract_composition_from_lines(pool),
     LongestYield(legacy_longest_line(pool, name)) >>

\* the composition and its tag are those of the first rule, n, with a value
ByRule(rec, yields, n) ==
  IF n = 0
  THEN rec.composition = NoParts /\ rec.meta.composition_source = None
  ELSE /\ rec.composition = yields[n]
       /\ rec.meta.composition_source = CompositionTags[n]

ByFirstOf(rec, yields) ==
  ByRule(rec, yields,
         first_index({i \in DOMAIN yields : truthy_parts(yields[i])}))

ByFirstRuleOn(rec, lines, ef) ==
  ByFirstOf(rec, RuleYields(collect_block(lines, "composition"), ef.labeled,
                            IF rec.meta.structured_detected
                            THEN ef.remaining ELSE lines,
                            rec.name))

ByFirstRule(rec, texts) ==
  ByFirstRuleOn(rec, normalize_texts(texts),
                _extract_labeled_fields(normalize_texts(texts)))

\* C22: the composition of the record just extracted (dish card in the
\* manual flow, position under review in the bulk flow) is the value of the
\* first rule that yields one, in the order block, labeled composition,
\* labeled description, scan of the active pool, longest line, and its
\* provenance tag names that rule; it is absent only if no rule yields.
C22_CompositionByFirstRule ==
  \A u \in DOMAIN sessions :
    LET s == sessions[u]
        cur == bulk_get_current(sessions, u)
    IN /\ out.msg = "dish_card" => ByFirstRule(StoredRecord(heap, s), s.texts)
       /\ (out.msg = "review_position" /\ cur # 0) =>
            ByFirstRule(deref(heap, s.bulk.positions[cur].parsed),
                        s.bulk.positions[cur].texts)

\* the buffer entries a photo event appends: the photo, then its caption
PhotoEntries(photo_obj, caption) ==
  <<[type |-> "photo", photo |-> photo_obj,
     photo_message_id |-> photo_obj.message_id]>>
  \o (IF caption # None
      THEN <<[type |-> "text", value |-> strip(caption)]>> ELSE << >>)

\* user u's session is in bulk_collect
Collecting(S, u) == u \in DOMAIN S /\ S[u].mode = "bulk_collect"

\* C23: while the session stays in bulk_collect the buffer only grows at its
\* end (the old buffer is a prefix of the new one); a photo event appends
\* one photo entry, followed by one text entry when it has a caption, a text
\* event appends one text entry, and both leave the mode bulk_collect.
C23_BufferAppendOnly ==
  [][\A u \in ActiveUsers :
       Collecting(sessions, u) =>
         /\ Collecting(sessions', u) =>
              /\ Len(sessions'[u].bulk.buffer) >= Len(sessions[u].bulk.buffer)
              /\ SubSeq(sessions'[u].bulk.buffer, 1,
                        Len(sessions[u].bulk.buffer)) = sessions[u].bulk.buffer
         /\ \A p \in PhotoInputs, c \in Captions :
              collect_photo(u, TRUE, p, c) =>
                /\ Collecting(sessions', u)
                /\ sessions'[u].bulk.buffer =
                     sessions[u].bulk.buffer \o PhotoEntries(p, c)
         /\ \A d \in DocumentInputs, c \in Captions :
              collect_document(u, TRUE, d, TRUE, c) =>
                /\ Collecting(sessions', u)
                /\ sessions'[u].bulk.buffer =
                     sessions[u].bulk.buffer \o PhotoEntries(d, c)
         /\ \A text \in Texts :
              collect_text(u, TRUE, text) =>
                /\ Collecting(sessions', u)
                /\ sessions'[u].bulk.buffer =
                     Append(sessions[u].bulk.buffer,
                            [type |-> "text", value |-> strip(text)])]_vars

\* a photo with the caption "Plov" was appended to the empty buffer
C23_Witness ==
  /\ Collecting(sessions, 1)
  /\ Len(sessions[1].bulk.buffer) = 2
  /\ sessions[1].bulk.buffer[1].type = "photo"
  /\ sessions[1].bulk.buffer[2] = [type |-> "text", value |-> "Plov"]
  /\ out.msg = "nothing"

\* C24: from any mode, selecting manual mode leaves the session in
\* manual_wait_sheet with an empty dish draft (no texts, no photos, no
\* record) and no sheet reference; selecting bulk mode leaves it in
\* bulk_wait_sheet with an empty buffer, no positions, cursor 0 and no sheet
\* reference.
C24_ModeSelectionResets ==
  [][\A u \in ActiveUsers :
       /\ manual_start(u, TRUE) =>
            /\ sessions'[u].mode = "manual_wait_sheet"
            /\ sessions'[u].texts = << >>
            /\ sessions'[u].photos = << >>
            /\ sessions'[u].parsed = 0
            /\ sessions'[u].menu.sheet_url = None
       /\ bulk_start(u, TRUE) =>
            /\ sessions'[u].mode = "bulk_wait_sheet"
            /\ sessions'[u].bulk.buffer = << >>
            /\ sessions'[u].bulk.positions = << >>
            /\ sessions'[u].bulk.current_index = 0
            /\ sessions'[u].menu.sheet_url = None]_vars

\* manual mode was selected in a session that had segmented a bulk menu
C24_Witness ==
  /\ out.msg = "manual_start"
  /\ 1 \in DOMAIN sessions
  /\ sessions[1].mode = "manual_wait_sheet"
  /\ sessions[1].bulk.positions # << >>
  /\ sessions[1].menu.sheet_url = None

\* C25: from any mode, the "home" action run to completion leaves the user's
\* session equal to a freshly created one: mode idle, no sheet, no rows,
\* empty draft, empty buffer, no positions, cursor 0, no record and no
\* pending edit field.
C25_HomeGivesFreshSession ==
  [][\A u \in ActiveUsers :
       go_home(u, TRUE) =>
         /\ sessions'[u] = _new_session
         /\ sessions'[u].mode = "idle"
         /\ sessions'[u].menu = [sheet_url |-> None, rows |-> << >>]
         /\ sessions'[u].texts = << >> /\ sessions'[u].photos = << >>
         /\ sessions'[u].bulk.buffer = << >>
         /\ sessions'[u].bulk.positions = << >>
         /\ sessions'[u].bulk.current_index = 0
         /\ sessions'[u].parsed = 0
         /\ sessions'[u].edit_mode = None]_vars

\* "home" has answered after an edit field had been chosen, and the
\* session is the fresh one
C25_Witness ==
  /\ out.msg = "home"
  /\ 1 \in DOMAIN sessions
  /\ sessions[1] = _new_session
  /\ edits >= 1
  /\ NoTask

\* the dish records user u's session refers to
SessionRefs(u) ==
  IF u \notin DOMAIN sessions THEN {}
  ELSE ({sessions[u].parsed}
        \cup {sessions[u].bulk.positions[i].parsed :
                i \in DOMAIN sessions[u].bulk.positions}) \ {0}

\* a step of a handler that runs for user a
HandlerOf(a) ==
  \/ user_step(a)
  \/ \E k \in TaskIds : tasks[k].user = a /\ task_step(k)

SameSession(b) ==
  /\ b \in DOMAIN sessions <=> b \in DOMAIN sessions'
  /\ b \in DOMAIN sessions => sessions'[b] = sessions[b]

SameRecords(b) ==
  \A id \in SessionRefs(b) : id \in DOMAIN heap' /\ heap'[id] = heap[id]

NoStall(kinds) ==
  \A k \in TaskIds, b \in Users :
    /\ tasks[k].kind \in kinds
    /\ tasks[k].user # b
    /\ \A j \in TaskIds : tasks[j].user # b
    => ENABLED user_step(b)

\* C27: while the export call or the photo-URL resolution of one user is in
\* progress, an event of another user can be handled to completion.
C27_ExternalCallsDoNotStall == NoStall({"export_call", "confirm"})

\* the photo-URL half of C27: bot.get_file is awaited
C27_GetFileDoesNotStall == NoStall({"confirm"})

\* user 1 waits for bot.get_file and "home" of user 2 was handled meanwhile
C27_GetFileWitness ==
  /\ \E k \in TaskIds : tasks[k].kind = "confirm" /\ tasks[k].user = 1
  /\ out = Say(2, "home")

\* the rows "done" builds from position pos
PositionRows(pos) ==
  build_sheet_items(deref(heap, pos.parsed),
                    IF truthy(pos.photo.file_id)
                    THEN photo_url_of(pos.photo.file_id) ELSE None)

\* the rows of the first k positions, in position order
RECURSIVE RowsUpTo(_, _)
RowsUpTo(positions, k) ==
  IF k = 0 THEN << >>
  ELSE RowsUpTo(positions, k - 1) \o PositionRows(positions[k])

\* a "done" whose photo URL was resolved, or that had none to resolve
DoneCompletes(u) ==
  \/ \E k \in TaskIds : tasks[k].user = u /\ get_file_returns(k)
  \/ /\ get_mode(sessions, u) = "bulk_review"
     /\ bulk_get_current(sessions, u) # 0
     /\ ready_button(u, TRUE)
     /\ tasks' = tasks

\* C28: after "menu uploaded" made n >= 1 positions, every successful "done"
\* moves the cursor one position on, the accumulated rows are always the rows
\* of the positions before the cursor, in position order and once each, and
\* the session is in manual_menu exactly when the cursor has reached n: n
\* "done" in a row end the review with the rows of positions 0..n-1.
C28_DonesEndReview ==
  /\ [](\A u \in DOMAIN sessions :
          LET s == sessions[u]
              n == Len(s.bulk.positions)
          IN s.mode \in {"bulk_review", "manual_menu"} =>
               /\ n >= 1
               /\ s.bulk.current_index \in 0..n
               /\ s.menu.rows = RowsUpTo(s.bulk.positions, s.bulk.current_index)
               /\ s.mode = "manual_menu" <=> s.bulk.current_index = n)
  /\ [][\A u \in ActiveUsers :
          DoneCompletes(u) =>
            sessions'[u].bulk.current_index = sessions[u].bulk.current_index + 1]_vars

\* two "done" in a row have ended the review of two positions whose rows
\* differ
C28_Witness ==
  /\ out = Say(1, "positions_done")
  /\ sessions[1].mode = "manual_menu"
  /\ Len(sessions[1].bulk.positions) = 2
  /\ Len(sessions[1].menu.rows) = 2
  /\ sessions[1].menu.rows[1] # sessions[1].menu.rows[2]

\* C29: with handlers running one at a time, whenever no handler is under way
\* and the mode is bulk_review, there are positions, the cursor is on one of
\* them and that position has its dish record.
C29_ReviewCursorOnRecord ==
  \A u \in DOMAIN sessions :
    LET b == sessions[u].bulk
    IN NoTask /\ sessions[u].mode = "bulk_review" =>
         /\ b.positions # << >>
         /\ 0 <= b.current_index /\ b.current_index < Len(b.positions)
         /\ b.positions[b.current_index + 1].parsed \in DOMAIN heap

\* the review stands on the second of two positions
C29_Witness ==
  /\ NoTask
  /\ 1 \in DOMAIN sessions
  /\ sessions[1].mode = "bulk_review"
  /\ Len(sessions[1].bulk.positions) = 2
  /\ sessions[1].bulk.current_index = 1
  /\ sessions[1].bulk.positions[2].parsed \in DOMAIN heap

\* C30: with handlers running one at a time, in every state whose mode is
\* manual_menu, dish_collect, edit, bulk_collect or bulk_review the sheet
\* reference of the session is set.
C30_SheetBoundInWorkingModes ==
  \A u \in DOMAIN sessions :
    sessions[u].mode \in {"manual_menu", "dish_collect", "edit",
                          "bulk_collect", "bulk_review"}
      => truthy(sessions[u].menu.sheet_url)

\* a dish card is shown in edit mode, the sheet bound before the dish began
C30_Witness ==
  /\ 1 \in DOMAIN sessions
  /\ sessions[1].mode = "edit"
  /\ out = Say(1, "dish_card")
  /\ sessions[1].menu.sheet_url \in SheetUrls

\* the rows of user u, none when there is no session
RowsOf(S, u) == IF u \in DOMAIN S THEN S[u].menu.rows ELSE << >>

\* the rows user u had are all still there, unchanged and in place
RowsKept(u) ==
  /\ Len(RowsOf(sessions', u)) >= Len(RowsOf(sessions, u))
  /\ SubSeq(RowsOf(sessions', u), 1, Len(RowsOf(sessions, u))) = RowsOf(sessions, u)

\* "home", or an export that went through
RemovesRows(u) ==
  \/ go_home(u, TRUE)
  \/ \E k \in TaskIds : tasks[k].user = u /\ menu_ready_export(k, TRUE)

\* C31: accumulated rows are removed only by "home" or by a completed
\* export; every other action leaves the existing rows in place with
\* unchanged content.
C31_RowsKeptUntilExport ==
  [][\A u \in ActiveUsers : RemovesRows(u) \/ RowsKept(u)]_vars

\* the part of C31 that does not concern mode selection
C31_RowsKeptButForModeSelection ==
  [][\A u \in ActiveUsers :
       RemovesRows(u) \/ manual_start(u, TRUE) \/ bulk_start(u, TRUE)
         \/ RowsKept(u)]_vars

DraftOf(S, u) ==
  IF u \in DOMAIN S
  THEN [texts |-> S[u].texts, photos |-> S[u].photos, parsed |-> S[u].parsed]
  ELSE [texts |-> << >>, photos |-> << >>, parsed |-> 0]

\* C33: dish_collect is entered only from manual_menu; "new dish" in any
\* other mode leaves the mode, the draft and the stored record unchanged.
C33_NewDishOnlyFromManualMenu ==
  [][\A u \in ActiveUsers :
       /\ get_mode(sessions, u) # "dish_collect"
            /\ get_mode(sessions', u) = "dish_collect"
            => get_mode(sessions, u) = "manual_menu"
       /\ manual_new_dish(u, TRUE) /\ get_mode(sessions, u) # "manual_menu"
            => /\ get_mode(sessions', u) = get_mode(sessions, u)
               /\ DraftOf(sessions', u) = DraftOf(sessions, u)]_vars

\* what does hold: "new dish" without a sheet link changes nothing, and
\* dish_collect is entered by "new dish" alone
C33_NewDishNeedsSheet ==
  [][\A u \in ActiveUsers :
       /\ get_mode(sessions, u) # "dish_collect"
            /\ get_mode(sessions', u) = "dish_collect"
            => manual_new_dish(u, TRUE)
       /\ manual_new_dish(u, TRUE)
            /\ (u \notin DOMAIN sessions \/ ~truthy(sessions[u].menu.sheet_url))
            => sessions' = sessions]_vars

\* "home" has run for the user of the suspended "done" k, and nothing since
HomeRanMeanwhile(k) ==
  /\ tasks[k].kind = "confirm"
  /\ tasks[k].user \in DOMAIN sessions
  /\ sessions[tasks[k].user] = _new_session

\* C34: when "home" ran while the user's "done" was suspended at the
\* photo-URL resolution, the session is a fresh one once the "done" has
\* finished as well: mode idle, no sheet reference, no rows, cursor 0.
C34_HomeDuringDoneGivesFresh ==
  [][\A k \in TaskIds :
       HomeRanMeanwhile(k) /\ (get_file_returns(k) \/ get_file_raises(k))
         => LET s == sessions'[tasks[k].user]
            IN /\ s.mode = "idle"
               /\ s.menu.sheet_url = None
               /\ s.menu.rows = << >>
               /\ s.bulk.current_index = 0]_vars

\* the same when bot.get_file raises: the handler ends there
C34_HomeDuringFailedDone ==
  [][\A k \in TaskIds :
       HomeRanMeanwhile(k) /\ get_file_raises(k)
         => sessions'[tasks[k].user] = _new_session]_vars

\* the fields and provenance tags the two extractors are compared on
SameExtraction(a, b) ==
  /\ a.name = b.name
  /\ a.composition = b.composition
  /\ a.weight = b.weight
  /\ a.price = b.price
  /\ a.prices = b.prices
  /\ a.ikpu = b.ikpu
  /\ a.meta.weight_source = b.meta.weight_source
  /\ a.meta.price_source = b.meta.price_source
  /\ a.meta.composition_source = b.meta.composition_source
  /\ a.meta.ikpu_source = b.meta.ikpu_source

\* C35: parse and parse_bulk_position return the same name, composition,
\* weight, price, price variants, product code and provenance tags on every
\* line list: the record either flow has just extracted is the one the other
\* extractor returns on the same texts.
C35_ExtractorsAgree ==
  \A u \in DOMAIN sessions :
    LET s == sessions[u]
        cur == bulk_get_current(sessions, u)
    IN /\ out.msg = "dish_card" =>
            SameExtraction(StoredRecord(heap, s), parse_bulk_position(s.texts))
       /\ (out.msg = "review_position" /\ cur # 0) =>
            SameExtraction(deref(heap, s.bulk.positions[cur].parsed),
                           parse(s.bulk.positions[cur].texts))

\* the session of user u, a fresh one when the registry has none
SessionOf(S, u) == IF u \in DOMAIN S THEN S[u] ELSE _new_session

WaitsForSheet(u) ==
  get_mode(sessions, u) \in {"manual_wait_sheet", "bulk_wait_sheet"}

\* C36: the sheet reference is stored only when the link arrives in
\* manual_wait_sheet or bulk_wait_sheet; a link received in any other mode
\* leaves the sheet reference and every other field of the session unchanged.
C36_SheetStoredOnlyWhenAwaited ==
  [][\A u \in ActiveUsers, text \in SheetUrls :
       set_sheet(u, TRUE, text) /\ ~WaitsForSheet(u)
         => SessionOf(sessions', u) = SessionOf(sessions, u)]_vars

\* what does hold: outside the two waiting modes a link changes nothing but
\* the sheet reference
C36_SheetLinkKeepsOtherFields ==
  [][\A u \in ActiveUsers, text \in SheetUrls :
       set_sheet(u, TRUE, text) /\ ~WaitsForSheet(u)
         => [SessionOf(sessions', u) EXCEPT !.menu.sheet_url = None]
              = [SessionOf(sessions, u) EXCEPT !.menu.sheet_url = None]]_vars

=============================================================================
